---- MODULE Spec2Model ----
(***************************************************************************)
(* KindaObjectDB: a class-tagging layer over one shared table "Objects" of *)
(* a KindaDB table store.  The model follows src/notes.js (lines 18-336)   *)
(* and, where the older revision in src/unnamed/part_000 differs, that     *)
(* revision too: the variable `revision` says which file is loaded.        *)
(*                                                                         *)
(* The table store (kinda-db) is an external collaborator.  It is modelled *)
(* as a key/value table with one transaction workspace: reads through a    *)
(* transaction handle see the handle's own writes over the committed       *)
(* table, commit applies the writes, abort discards them.                  *)
(***************************************************************************)
EXTENDS Integers, Sequences, FiniteSets, TLC

\* ------------------------------------------------------------------ bounds
MaxWrites == 1       \* writing calls (putItem, deleteItem, findAndDeleteItems) started along one behaviour
MaxDepth == 2        \* transaction() bodies running along one call chain
MaxBatchSize == 3    \* the batchSize option of forEachItems goes from 1 to this

KeyOrder == <<"aaa", "bbb">>   \* the keys, in the order of the primary index
Keys == {KeyOrder[i] : i \in DOMAIN KeyOrder}
ClassNames == {"Account", "Person"}
Countries == {"France", "USA"}
UserErrors == {"e1", "e2"}     \* identities of errors thrown by callers' code

\* ------------------------------------------------------- program constants
VERSION == 1
RESERVED == "_classes"

\* ------------------------------------------------------------- data model
\* class lists given to putItem: non-empty arrays of class names
ClassLists ==
  {<<c>> : c \in ClassNames} \cup
  {<<p[1], p[2]>> : p \in {q \in ClassNames \X ClassNames : q[1] # q[2]}}

\* a caller's value: an attribute map without the reserved attribute
Values == [{"country"} -> Countries]

\* JavaScript's undefined, a wrapped boolean, a wrapped number
Undefined == [type |-> "undefined"]
Bool(b) == [type |-> "boolean", b |-> b]
Num(n) == [type |-> "number", n |-> n]

\* how a call ends
Return(v) == [type |-> "return", value |-> v]
Throw(e) == [type |-> "throw", error |-> e]
Running == [type |-> "running"]
Error(message) == [type |-> "error", message |-> message]

ClassMismatch ==
  Error("found an item with the specified key but not belonging to the specified class")
TransactionMisuse == Error("cannot initialize the object database inside a transaction")
VersionDowngrade == Error("cannot downgrade the object database")
ClassInvalid == Error("class parameter is missing or empty")
ClassNotString == Error("class parameter is invalid")
ClassesEmpty == Error("classes parameter is empty")
ClassesInvalid == Error("classes parameter is invalid")
NotFound == Error("item not found")
AlreadyExists == Error("item already exists")
StoreFailure == Error("the store failed")

\* Array.prototype.indexOf(x) !== -1
Contains(seq, x) == \E i \in 1..Len(seq) : seq[i] = x

\* item = _.clone(item); item._classes = classes
Encode(classes, value) ==
  [a \in DOMAIN value \cup {RESERVED} |->
     IF a = RESERVED THEN classes ELSE value[a]]

\* a bug: the reserved attribute is left in the value
OmitNothing(item) == item

\* _.omit(item, '_classes')
Omit(item) == [a \in DOMAIN item \ {RESERVED} |-> item[a]]

\* { classes, value } as returned by getItem
Decode(item) == [classes |-> item[RESERVED], value |-> Omit(item)]

\* { classes, key, value } as returned by findItems
DecodeWithKey(key, item) ==
  [classes |-> item[RESERVED], key |-> key, value |-> Omit(item)]

\* klass + '?'
makeIndexName(klass) ==
  CASE klass = "Account" -> "Account?"
    [] klass = "Person" -> "Person?"
    [] OTHER -> "?"

\* the index function installed for a class by the creator
MembershipFn(name, item) ==
  IF RESERVED \in DOMAIN item /\ Contains(item[RESERVED], name)
  THEN Bool(TRUE) ELSE Undefined

\* records of the shared table
Records == {Encode(C, v) : C \in ClassLists, v \in Values}

\* ------------------------------------------------------------------ state
VARIABLES
  revision,            \* the source file loaded: "notes.js" or "part_000"
  items,               \* the committed table Objects: key -> record or undefined
  record,              \* the stored LifecycleRecord [name, '$ObjectDatabase']
  hasBeenInitialized,  \* root.hasBeenInitialized
  isInitializing,      \* root.isInitializing
  initPc,              \* where the running initializeObjectDatabase() is suspended
  initErr,             \* the error upgradeObjectDatabase() raised, thrown after the unlock
  lockHeld,            \* the database-level lock of the table store
  pending,             \* the root call suspended in `await this.initializeObjectDatabase()`
  frames,              \* the transaction() bodies running, outermost first
  writes,              \* the open physical transaction's writes: key -> record, undefined (deleted) or untouched
  last,                \* the last call that ended, and how
  nWrites,             \* writing calls started so far
  scan,                \* the running forEachItems(): its call, what is left to visit, what was visited
  emitted,             \* the notifications the instance emitted in the step just taken
  log,                 \* the calls made and notifications emitted so far by the running initialization
  instances            \* the other instances opened on the same store and name: each one's initialization

lifecycleVars ==
  <<record, hasBeenInitialized, isInitializing, initPc, initErr, lockHeld, pending, log>>
storeVars == <<items, writes, frames, scan>>
vars == <<revision, items, record, hasBeenInitialized, isInitializing, initPc, initErr,
          lockHeld, pending, frames, writes, last, nWrites, scan, emitted, log, instances>>

Untouched == [type |-> "untouched"]
NoWrites == [k \in Keys |-> Untouched]

Call(op, obj, args) == [op |-> op, obj |-> obj, args |-> args]

\* what is kept of a call that ended: the call without putItem's options, what
\* it returned or threw, and what it saw on its way: the record getItem and
\* deleteItem read from the table and whether the table changed, the writes and
\* the error of the body that a transaction() call ran
Shown(call) ==
  IF call.op = "putItem"
  THEN [call EXCEPT !.args = [classes |-> call.args.classes, key |-> call.args.key,
                              value |-> call.args.value]]
  ELSE call
Ended(call, out, seen) == [call |-> call, out |-> out, seen |-> seen]
Done(call, out, seen) == Ended(Shown(call), out, seen)
Nothing == [type |-> "nothing"]
Seen(found, changed) == [found |-> found, changed |-> changed]
Refused(argument) == [refused |-> argument]
Visits(visited, raised) == [visited |-> visited, raised |-> raised]

\* ------------------------------------------------------------ scope objects
\* Objects are numbered: 0 is the instance built by the creator; a transaction
\* scope is Object.create(this) with its own `database` property only, so every
\* other property (objectDatabase, hasBeenInitialized, isInitializing) is read
\* from the root through the prototype chain.
Root == 0

\* a bug: every object is its own objectDatabase
objectDatabaseOwn(obj) == obj

\* this.objectDatabase = this, set once by the creator
objectDatabase(obj) == Root

\* a bug: the getter answers whether a transaction is running
IsInsideTransactionRunning(obj) == frames # <<>>

\* get isInsideTransaction() { return this !== this.objectDatabase; }
IsInsideTransaction(obj) == obj # objectDatabase(obj)

\* a bug: the transaction scope is not bound to tr
databaseShared(obj) == "store"

\* this.database: the table store for the root; a transaction scope has its
\* own property, the handle tr of the physical transaction
database(obj) == IF obj = Root THEN "store" ELSE "tr"

\* the scope objects a caller can hold
Scopes == {Root} \cup {frames[i].scope : i \in DOMAIN frames}
CurrentScope == frames[Len(frames)].scope

\* ------------------------------------------------------------ table store
\* what this.database reads for a scope: the committed table for the root, the
\* transaction's own writes over it for a transaction scope
View(obj) ==
  IF database(obj) = "store" THEN items
  ELSE [k \in Keys |-> IF writes[k] = Untouched THEN items[k] ELSE writes[k]]

\* database.getItem(TABLE_NAME, key, {errorIfMissing})
StoreGetItem(view, key, errorIfMissing) ==
  IF view[key] = Undefined
  THEN IF errorIfMissing THEN Throw(NotFound) ELSE Return(Undefined)
  ELSE Return(view[key])

\* database.putItem(TABLE_NAME, key, item, {createIfMissing, errorIfExists})
StorePutItem(view, key, createIfMissing, errorIfExists) ==
  IF errorIfExists
  THEN IF view[key] # Undefined THEN Throw(AlreadyExists) ELSE Return(Undefined)
  ELSE IF ~createIfMissing /\ view[key] = Undefined THEN Throw(NotFound)
  ELSE Return(Undefined)

\* database.deleteItem(TABLE_NAME, key): true when an item was removed
StoreDeleteItem(view, key) ==
  IF view[key] = Undefined THEN Throw(NotFound) ELSE Return(Bool(TRUE))

\* a write through this.database of a scope
StoreWrite(obj, key, x) ==
  IF database(obj) = "store"
  THEN items' = [items EXCEPT ![key] = x] /\ writes' = writes
  ELSE writes' = [writes EXCEPT ![key] = x] /\ items' = items

\* the value an index or attribute named p has for an item
IndexedProperty(item, p) ==
  IF \E c \in ClassNames : makeIndexName(c) = p
  THEN MembershipFn(CHOOSE c \in ClassNames : makeIndexName(c) = p, item)
  ELSE IF p \in DOMAIN item THEN item[p] ELSE Undefined

\* an item satisfies a query when every queried property has the queried value
Matches(item, query) ==
  \A p \in DOMAIN query :
    IF \E c \in ClassNames : makeIndexName(c) = p
    THEN IndexedProperty(item, p) = query[p]
    ELSE p \in DOMAIN item /\ item[p] = query[p]

\* the keys database.findItems(TABLE_NAME, {query}) returns, in key order
StoreFindKeys(view, query) ==
  SelectSeq(KeyOrder, LAMBDA k : view[k] # Undefined /\ Matches(view[k], query))

\* database.getItems(TABLE_NAME, keys, {errorIfMissing}): the records found
\* under the keys, as {key, value}, in the order of the keys
StoreGetItems(view, keys, errorIfMissing) ==
  LET found == SelectSeq(keys, LAMBDA k : view[k] # Undefined)
  IN IF errorIfMissing /\ Len(found) < Len(keys) THEN Throw(NotFound)
     ELSE Return([i \in DOMAIN found |-> [key |-> found[i], value |-> view[found[i]]]])

\* the order of the values of an indexed attribute, and of the keys
ValueOrder == <<"France", "USA">>
Rank(seq, x) == CHOOSE i \in DOMAIN seq : seq[i] = x
Before(view, p, k1, k2) ==
  \/ Rank(ValueOrder, view[k1][p]) < Rank(ValueOrder, view[k2][p])
  \/ /\ view[k1][p] = view[k2][p]
     /\ Rank(KeyOrder, k1) < Rank(KeyOrder, k2)

\* keys sorted by the attribute p, then by key: the scan order of the index on p
RECURSIVE SortedBy(_, _, _)
SortedBy(view, p, keys) ==
  IF keys = {} THEN <<>>
  ELSE LET first == CHOOSE k \in keys : \A j \in keys \ {k} : Before(view, p, k, j)
       IN <<first>> \o SortedBy(view, p, keys \ {first})

\* the keys database.findItems(TABLE_NAME, {query, order}) returns
StoreFindKeysOrder(view, query, order) ==
  LET keys == StoreFindKeys(view, query)
  IN SortedBy(view, order, {keys[i] : i \in DOMAIN keys})

\* database.countItems(TABLE_NAME, {query})
StoreCountItems(view, query) == Len(StoreFindKeys(view, query))

\* the sub-queries of database.forEachItems: at most batchSize keys of the
\* scan, from its start, then from after the last key of the batch before
Limit(keys, limit) == SubSeq(keys, 1, IF Len(keys) < limit THEN Len(keys) ELSE limit)
StoreFirstBatch(view, query, batchSize) == Limit(StoreFindKeys(view, query), batchSize)
StoreNextBatch(view, query, startAfter, batchSize) ==
  Limit(SelectSeq(StoreFindKeys(view, query),
                  LAMBDA k : Rank(KeyOrder, k) > Rank(KeyOrder, startAfter)),
        batchSize)

\* --------------------------------------------------------------- helpers
\* a bug: the empty string passes
checkClassPermissive(klass) == Return(Undefined)

\* checkClass(klass): a class name is a non-empty string
checkClass(klass) ==
  IF klass = "" THEN Throw(ClassInvalid) ELSE Return(Undefined)

\* a bug: the class is not added to the query
injectClassInQueryOptionDropped(klass, query) == query

\* a bug: an empty array passes
checkClassesAccepting(classes) == Return(Undefined)

\* putItem's check of the array given as classes: it is not empty
checkClasses(classes) ==
  IF Len(classes) = 0 THEN Throw(ClassesEmpty) ELSE Return(Undefined)

\* injectClassInQueryOption(klass, options): options.query[klass + '?'] = true
injectClassInQueryOption(klass, query) ==
  [p \in DOMAIN query \cup {makeIndexName(klass)} |->
     IF p = makeIndexName(klass) THEN Bool(TRUE) ELSE query[p]]

\* a bug: the initialization runs on a transaction scope too
initializeObjectDatabaseEntryNesting(obj) ==
  IF hasBeenInitialized THEN "return"
  ELSE IF isInitializing THEN "return"
  ELSE "run"

\* a bug: a call made while the initialization runs starts it again
initializeObjectDatabaseEntryUnguarded(obj) ==
  IF hasBeenInitialized THEN "return"
  ELSE IF IsInsideTransaction(obj) THEN "throw"
  ELSE "run"

\* the lifecycle of the instance, from its two flags
Lifecycle ==
  IF hasBeenInitialized THEN "Ready"
  ELSE IF isInitializing THEN "Initializing"
  ELSE "Uninitialized"

\* the guards at the head of initializeObjectDatabase()
initializeObjectDatabaseEntry(obj) ==
  IF hasBeenInitialized THEN "return"
  ELSE IF isInitializing THEN "return"
  ELSE IF IsInsideTransaction(obj) THEN "throw"
  ELSE "run"

\* ------------------------------------------- the calls, after initialization
\* getItem: what it returns or throws once initializeObjectDatabase() returned
getItemResult(obj, klass, key, errorIfMissing) ==
  LET r == StoreGetItem(View(obj), key, errorIfMissing) IN
  IF r.type = "throw" THEN r
  ELSE IF r.value = Undefined THEN Return(Undefined)
  ELSE IF ~Contains(r.value[RESERVED], klass) THEN Throw(ClassMismatch)
  ELSE Return(Decode(r.value))

getItemStore(call) ==
  /\ UNCHANGED storeVars
  /\ last' = Done(call, getItemResult(call.obj, call.args.klass, call.args.key,
                                      call.args.errorIfMissing),
                  Seen(View(call.obj)[call.args.key],
                       <<items', writes'>> # <<items, writes>>))

\* a bug: the classes of the item already stored are kept and the new ones added
putItemStoreMerging(call) ==
  LET a == call.args
      found == View(call.obj)[a.key]
      classes == IF found = Undefined THEN a.classes
                 ELSE found[RESERVED] \o
                      SelectSeq(a.classes, LAMBDA c : ~Contains(found[RESERVED], c))
      r == StorePutItem(View(call.obj), a.key, a.createIfMissing, a.errorIfExists)
  IN /\ last' = Done(call, r, Seen(found, r.type = "return"))
     /\ IF r.type = "return"
        THEN StoreWrite(call.obj, a.key, Encode(classes, a.value))
        ELSE UNCHANGED <<items, writes>>
     /\ UNCHANGED <<frames, scan>>

putItemStore(call) ==
  LET a == call.args
      item == Encode(a.classes, a.value)
      r == StorePutItem(View(call.obj), a.key, a.createIfMissing, a.errorIfExists)
  IN /\ last' = Done(call, r, Seen(View(call.obj)[a.key], r.type = "return"))
     /\ IF r.type = "return"
        THEN StoreWrite(call.obj, a.key, item)
        ELSE UNCHANGED <<items, writes>>
     /\ UNCHANGED <<frames, scan>>

\* a bug: the function deletes without looking at the item's classes
deleteItemBodyUnchecked(view, klass, key, errorIfMissing) ==
  LET r == StoreGetItem(view, key, errorIfMissing) IN
  IF r.type = "throw"
  THEN [out |-> r, hasBeenDeleted |-> Bool(FALSE), removed |-> FALSE]
  ELSE IF r.value = Undefined
  THEN [out |-> Return(Undefined), hasBeenDeleted |-> Bool(FALSE), removed |-> FALSE]
  ELSE [out |-> Return(Undefined), hasBeenDeleted |-> StoreDeleteItem(view, key).value,
        removed |-> TRUE]

\* the function deleteItem passes to this.transaction(): how it ends, the value
\* left in hasBeenDeleted, and whether it removed the item
deleteItemBody(view, klass, key, errorIfMissing) ==
  LET r == StoreGetItem(view, key, errorIfMissing) IN
  IF r.type = "throw"
  THEN [out |-> r, hasBeenDeleted |-> Bool(FALSE), removed |-> FALSE]
  ELSE IF r.value = Undefined
  THEN [out |-> Return(Undefined), hasBeenDeleted |-> Bool(FALSE), removed |-> FALSE]
  ELSE IF ~Contains(r.value[RESERVED], klass)
  THEN [out |-> Throw(ClassMismatch), hasBeenDeleted |-> Bool(FALSE), removed |-> FALSE]
  ELSE [out |-> Return(Undefined), hasBeenDeleted |-> StoreDeleteItem(view, key).value,
        removed |-> TRUE]

\* what deleteItem returns after its transaction returned: notes.js returns
\* hasBeenDeleted, part_000 has no return statement
deleteItemReturnNotes(hasBeenDeleted) == hasBeenDeleted
deleteItemReturnPart000(hasBeenDeleted) == Undefined
deleteItemReturn(hasBeenDeleted) ==
  IF revision = "notes.js" THEN deleteItemReturnNotes(hasBeenDeleted)
  ELSE deleteItemReturnPart000(hasBeenDeleted)

\* deleteItem's transaction.  On the root the table store opens a physical
\* transaction for the function and commits it when the function returns, or
\* aborts it when it throws (it throws before its only write); on a transaction
\* scope the function runs in the enclosing transaction.
deleteItemStore(call) ==
  LET a == call.args
      b == deleteItemBody(View(call.obj), a.klass, a.key, a.errorIfMissing)
  IN /\ IF b.removed
        THEN StoreWrite(call.obj, a.key, Undefined)
        ELSE UNCHANGED <<items, writes>>
     /\ UNCHANGED <<frames, scan>>
     /\ last' = Done(call, IF b.out.type = "throw" THEN b.out
                            ELSE Return(deleteItemReturn(b.hasBeenDeleted)),
                     Seen(View(call.obj)[a.key], <<items', writes'>> # <<items, writes>>))

\* a bug: the record is read through the store, outside the transaction
deleteItemReadsOutside(tr) == Root

\* `tr.database.getItem(TABLE_NAME, key, options)`: the scope the function
\* of deleteItem reads through
deleteItemReads(tr) == tr

\* the table store isolates a transaction: a key read or written through tr
\* is held until the transaction ends, and a write to it from outside waits
Held(key) ==
  \E i \in DOMAIN frames : frames[i].holds /\ frames[i].call.args.key = key

\* findItems: the decoded items of the class that satisfy the query
findItemsResult(obj, klass, query) ==
  LET view == View(obj)
      keys == StoreFindKeys(view, injectClassInQueryOption(klass, query))
  IN [i \in DOMAIN keys |-> DecodeWithKey(keys[i], view[keys[i]])]

\* a bug: the caller's query is not handed to the store
countItemsResultOfClass(obj, klass, query) ==
  StoreCountItems(View(obj), injectClassInQueryOption(klass, [p \in {} |-> Undefined]))

\* countItems: the store counts the items of the class that match the query
countItemsResult(obj, klass, query) ==
  StoreCountItems(View(obj), injectClassInQueryOption(klass, query))

countItemsStore(call) ==
  /\ last' = Done(call, Return(Num(countItemsResult(call.obj, call.args.klass,
                                                     call.args.query))), Nothing)
  /\ UNCHANGED storeVars

\* a bug: the order is not handed to the store
findItemsOrderResultByKey(obj, klass, query, order) ==
  LET view == View(obj)
      keys == StoreFindKeys(view, injectClassInQueryOption(klass, query))
  IN [i \in DOMAIN keys |-> DecodeWithKey(keys[i], view[keys[i]])]

\* findItems with {query, order}: the store's items in the store's order
findItemsOrderResult(obj, klass, query, order) ==
  LET view == View(obj)
      keys == StoreFindKeysOrder(view, injectClassInQueryOption(klass, query), order)
  IN [i \in DOMAIN keys |-> DecodeWithKey(keys[i], view[keys[i]])]

findItemsOrderStore(call) ==
  /\ last' = Done(call, Return(findItemsOrderResult(call.obj, call.args.klass,
                                                    call.args.query, call.args.order)),
                  Nothing)
  /\ UNCHANGED storeVars

\* a bug: the scan is not restricted to the class
forEachItemsOptionsUnscoped(klass, query, batchSize) ==
  [query |-> query, batchSize |-> batchSize]

\* forEachItems: the options handed to the store
forEachItemsOptions(klass, query, batchSize) ==
  [query |-> injectClassInQueryOption(klass, query), batchSize |-> batchSize]

\* a bug: the function handed to the store does not wait for the visitor
forEachItemsCallbackDetached(out) == Return(Undefined)

\* how the function handed to the store ends when the visitor ended with out:
\* `await fn.call(thisArg, {classes, key, value})`
forEachItemsCallback(out) == out

\* the scan calls the function with the first key of a batch: the visitor gets
\* the decoded item and runs
ScanVisit(call, batch, visited, raised) ==
  LET view == View(call.obj)
  IN scan' = [call |-> call, batch |-> batch, raised |-> raised,
              visited |-> Append(visited, DecodeWithKey(batch[1], view[batch[1]]))]

\* the scan ends, forEachItems returns or throws
ScanEnds(call, out, visited, raised) ==
  /\ scan' = Undefined
  /\ last' = Done(call, out, Visits(visited, raised))

\* forEachItems after the initialization: the store fetches the first batch
forEachItemsStore(call) ==
  LET o == forEachItemsOptions(call.args.klass, call.args.query, call.args.batchSize)
      batch == StoreFirstBatch(View(call.obj), o.query, o.batchSize)
  IN /\ IF batch = <<>>
        THEN ScanEnds(call, Return(Undefined), <<>>, <<>>)
        ELSE ScanVisit(call, batch, <<>>, <<>>) /\ last' = Done(call, Running, Nothing)
     /\ UNCHANGED <<items, writes, frames>>

\* the visitor ended with out: the store stops at an error, else goes on with
\* the next key of the batch, or of the next batch, or ends the scan
VisitorEnds(out) ==
  LET call == scan.call
      o == forEachItemsOptions(call.args.klass, call.args.query, call.args.batchSize)
      raised == IF out.type = "throw" THEN Append(scan.raised, out.error) ELSE scan.raised
      rest == Tail(scan.batch)
      next == IF rest # <<>> THEN rest
              ELSE StoreNextBatch(View(call.obj), o.query, Head(scan.batch), o.batchSize)
  IN /\ scan # Undefined
     /\ emitted' = <<>>
     /\ IF forEachItemsCallback(out).type = "throw"
        THEN ScanEnds(call, forEachItemsCallback(out), scan.visited, raised)
        ELSE IF next = <<>>
        THEN ScanEnds(call, Return(Undefined), scan.visited, raised)
        ELSE ScanVisit(call, next, scan.visited, raised) /\ last' = last
     /\ UNCHANGED <<revision, instances, nWrites, items, writes, frames, lifecycleVars>>

VisitorReturns == VisitorEnds(Return(Undefined))
VisitorThrows(e) == VisitorEnds(Throw(e))

\* a bug: the items that do not belong to the class are left out
getItemsMapFiltering(klass, fetched) ==
  LET own == SelectSeq(fetched, LAMBDA item : Contains(item.value[RESERVED], klass))
  IN Return([i \in DOMAIN own |-> DecodeWithKey(own[i].key, own[i].value)])

\* getItems: items.map(item => ...) over the fetched {key, value}; the
\* function throws at the first item that does not belong to the class
getItemsMap(klass, fetched) ==
  IF \E i \in DOMAIN fetched : ~Contains(fetched[i].value[RESERVED], klass)
  THEN Throw(ClassMismatch)
  ELSE Return([i \in DOMAIN fetched |-> DecodeWithKey(fetched[i].key, fetched[i].value)])

getItemsResult(obj, klass, keys, errorIfMissing) ==
  LET r == StoreGetItems(View(obj), keys, errorIfMissing)
  IN IF r.type = "throw" THEN r ELSE getItemsMap(klass, r.value)

getItemsStore(call) ==
  LET a == call.args
  IN /\ last' = Done(call, getItemsResult(call.obj, a.klass, a.keys, a.errorIfMissing),
                     Seen(StoreGetItems(View(call.obj), a.keys, a.errorIfMissing), FALSE))
     /\ UNCHANGED storeVars

findItemsStore(call) ==
  /\ last' = Done(call, Return(findItemsResult(call.obj, call.args.klass, call.args.query)),
                  Nothing)
  /\ UNCHANGED storeVars

\* what findAndDeleteItems returns: notes.js returns the store's count,
\* part_000 has no return statement
findAndDeleteItemsReturnNotes(count) == Num(count)
findAndDeleteItemsReturnPart000(count) == Undefined
findAndDeleteItemsReturn(count) ==
  IF revision = "notes.js" THEN findAndDeleteItemsReturnNotes(count)
  ELSE findAndDeleteItemsReturnPart000(count)

findAndDeleteItemsStore(call) ==
  LET view == View(call.obj)
      keys == StoreFindKeys(view, injectClassInQueryOption(call.args.klass, call.args.query))
      gone == {keys[i] : i \in DOMAIN keys}
  IN /\ last' = Done(call, Return(findAndDeleteItemsReturn(Len(keys))),
                     Seen(view, gone # {}))
     /\ IF database(call.obj) = "store"
        THEN /\ items' = [k \in Keys |-> IF k \in gone THEN Undefined ELSE items[k]]
             /\ writes' = writes
        ELSE /\ writes' = [k \in Keys |-> IF k \in gone THEN Undefined ELSE writes[k]]
             /\ items' = items
     /\ UNCHANGED <<frames, scan>>

\* transaction(fn) on the root, after initialization: database.transaction()
\* opens a physical transaction, and fn gets Object.create(this) bound to it
transactionOpen(call) ==
  /\ frames' = Append(frames, [physical |-> TRUE, this |-> call.obj, scope |-> call.obj + 1,
                               before |-> items])
  /\ writes' = NoWrites
  /\ UNCHANGED <<items, last, scan>>

\* initializeObjectDatabase() called by the user returns
initializeObjectDatabaseReturns(call) ==
  /\ last' = Done(call, Return(Undefined), Nothing)
  /\ UNCHANGED storeVars

\* the call resumes once `await this.initializeObjectDatabase()` returned
Resume(call) ==
  CASE call.op = "getItem" -> getItemStore(call)
    [] call.op = "putItem" -> putItemStore(call)
    [] call.op = "deleteItem" -> deleteItemStore(call)
    [] call.op = "findItems" -> findItemsStore(call)
    [] call.op = "findItemsOrder" -> findItemsOrderStore(call)
    [] call.op = "getItems" -> getItemsStore(call)
    [] call.op = "countItems" -> countItemsStore(call)
    [] call.op = "forEachItems" -> forEachItemsStore(call)
    [] call.op = "initializeObjectDatabase" -> initializeObjectDatabaseReturns(call)
    [] call.op = "findAndDeleteItems" -> findAndDeleteItemsStore(call)
    [] call.op = "transaction" -> transactionOpen(call)

\* `await this.initializeObjectDatabase()` in a call: it returns at once, throws,
\* or starts the initialization and suspends the call
AwaitInitialization(call) ==
  LET d == initializeObjectDatabaseEntry(call.obj) IN
  CASE d = "return" -> Resume(call) /\ UNCHANGED lifecycleVars
    [] d = "throw" ->
         /\ last' = Done(call, Throw(TransactionMisuse), Nothing)
         /\ UNCHANGED <<storeVars, lifecycleVars>>
    [] d = "run" ->
         /\ isInitializing' = TRUE
         /\ initPc' = "initializeDatabase"
         /\ pending' = call
         /\ log' = <<>>
         /\ UNCHANGED <<record, hasBeenInitialized, initErr, lockHeld, storeVars, last>>

\* a call that fails its argument validation
Reject(call, out) ==
  /\ last' = Done(call, out, Nothing)
  /\ UNCHANGED <<storeVars, lifecycleVars>>

\* a call that reads starts; a call that writes starts, within the bound
StartRead == emitted' = <<>> /\ UNCHANGED <<revision, instances, nWrites>>
StartWrite ==
  /\ nWrites < MaxWrites
  /\ nWrites' = nWrites + 1
  /\ revision' = revision
  /\ instances' = instances
  /\ emitted' = <<>>

\* ------------------------------------------------------------ the API calls
\* the arguments callers pass: class names (and the empty string), class lists
\* (and the empty array), queries on the country (or none), and the option sets
\* of putItem: the default, {errorIfExists: true} and {createIfMissing: false}
ClassArgs == ClassNames \cup {""}
ClassListArgs == ClassLists \cup {<<>>}
Queries == {[p \in {} |-> Undefined]} \cup [{"country"} -> Countries]
PutOptions ==
  {[createIfMissing |-> TRUE, errorIfExists |-> FALSE],
   [createIfMissing |-> TRUE, errorIfExists |-> TRUE],
   [createIfMissing |-> FALSE, errorIfExists |-> FALSE]}

getItem(obj, klass, key, errorIfMissing) ==
  LET call == Call("getItem", obj,
                   [klass |-> klass, key |-> key, errorIfMissing |-> errorIfMissing])
  IN /\ StartRead
     /\ IF checkClass(klass).type = "throw"
        THEN Reject(call, checkClass(klass))
        ELSE AwaitInitialization(call)

putItem(obj, classes, key, value, createIfMissing, errorIfExists) ==
  LET call == Call("putItem", obj,
                   [classes |-> classes, key |-> key, value |-> value,
                    createIfMissing |-> createIfMissing, errorIfExists |-> errorIfExists])
  IN /\ StartWrite
     /\ IF checkClasses(classes).type = "throw"
        THEN Reject(call, checkClasses(classes))
        ELSE AwaitInitialization(call)

\* putItem with a classes argument that is no array (a string, undefined):
\* `if (!_.isArray(classes)) throw`, the first statement
NonArrays == {Undefined, [type |-> "string"]}
putItemNonArray(obj, classes, key, value) ==
  LET call == Call("putItem", obj,
                   [classes |-> classes, key |-> key, value |-> value,
                    createIfMissing |-> TRUE, errorIfExists |-> FALSE])
  IN /\ StartWrite
     /\ UNCHANGED <<storeVars, lifecycleVars>>
     /\ last' = Done(call, Throw(ClassesInvalid), Refused(classes))

\* getItem, deleteItem, getItems, findItems, countItems, forEachItems or
\* findAndDeleteItems with a class argument that is no string (undefined, a
\* number): `if (!_.isString(klass)) throw`, the first statement of
\* checkClass(), which each of them calls first, itself or as the first
\* statement of injectClassInQueryOption()
NonStrings == {Undefined, Num(0)}
ClassOperations ==
  {"getItem", "deleteItem", "getItems", "findItems", "countItems", "forEachItems",
   "findAndDeleteItems"}
checkClassNonString(op, obj, klass) ==
  /\ StartRead
  /\ UNCHANGED <<storeVars, lifecycleVars>>
  /\ last' = Done(Call(op, obj, Undefined), Throw(ClassNotString), Refused(klass))

\* deleteItem runs its function through this.transaction(): on a transaction
\* scope that is fn(this), with no initializeObjectDatabase() call
deleteItem(obj, klass, key, errorIfMissing) ==
  LET call == Call("deleteItem", obj,
                   [klass |-> klass, key |-> key, errorIfMissing |-> errorIfMissing])
  IN /\ StartWrite
     /\ IF checkClass(klass).type = "throw"
        THEN Reject(call, checkClass(klass))
        ELSE IF IsInsideTransaction(obj)
        THEN deleteItemStore(call) /\ UNCHANGED lifecycleVars
        ELSE AwaitInitialization(call)

\* deleteItem(klass, key, options) on the root of an initialized instance,
\* by step.  First step: checkClass, transaction() opens the physical
\* transaction, the function reads the record and checks its classes; it
\* ends here when the read throws, finds nothing, or finds another class.
DeleteItemReads(klass, key, errorIfMissing) ==
  LET call == Call("deleteItem", Root,
                   [klass |-> klass, key |-> key, errorIfMissing |-> errorIfMissing])
      tr == Root + 1
      r == StoreGetItem(View(deleteItemReads(tr)), key, errorIfMissing)
      out == IF r.type = "throw" THEN r
             ELSE IF r.value = Undefined THEN Return(deleteItemReturn(Bool(FALSE)))
             ELSE IF ~Contains(r.value[RESERVED], klass) THEN Throw(ClassMismatch)
             ELSE Running
  IN /\ hasBeenInitialized
     /\ frames = <<>>
     /\ checkClass(klass).type = "return"
     /\ StartRead
     /\ IF out = Running
        THEN /\ frames' = <<[physical |-> TRUE, this |-> Root, scope |-> tr,
                             before |-> items, call |-> call,
                             holds |-> deleteItemReads(tr) = tr]>>
             /\ last' = last
        ELSE /\ frames' = frames
             /\ last' = Done(call, out, Seen(View(Root)[key], FALSE))
     /\ UNCHANGED <<items, writes, scan, lifecycleVars>>

\* Second step: hasBeenDeleted = await tr.database.deleteItem(TABLE_NAME, key),
\* the function returns, the table store commits, deleteItem returns.  The
\* call keeps the record that was in the table when it was removed.
DeleteItemDeletes ==
  /\ frames # <<>>
  /\ LET top == frames[1]
         key == top.call.args.key
         r == StoreDeleteItem(View(top.scope), key)
     IN /\ items' = IF r.type = "return" THEN [items EXCEPT ![key] = Undefined] ELSE items
        /\ last' = Done(top.call,
                        IF r.type = "return" THEN Return(deleteItemReturn(r.value)) ELSE r,
                        Seen(View(top.scope)[key], r.type = "return"))
  /\ frames' = <<>>
  /\ StartRead
  /\ UNCHANGED <<writes, scan, lifecycleVars>>

findItems(obj, klass, query) ==
  LET call == Call("findItems", obj, [klass |-> klass, query |-> query])
  IN /\ StartRead
     /\ IF checkClass(klass).type = "throw"
        THEN Reject(call, checkClass(klass))
        ELSE AwaitInitialization(call)

\* findItems(klass, {query, order})
findItemsOrder(obj, klass, query, order) ==
  LET call == Call("findItemsOrder", obj,
                   [klass |-> klass, query |-> query, order |-> order])
  IN /\ StartRead
     /\ IF checkClass(klass).type = "throw"
        THEN Reject(call, checkClass(klass))
        ELSE AwaitInitialization(call)

getItems(obj, klass, keys, errorIfMissing) ==
  LET call == Call("getItems", obj,
                   [klass |-> klass, keys |-> keys, errorIfMissing |-> errorIfMissing])
  IN /\ StartRead
     /\ IF checkClass(klass).type = "throw"
        THEN Reject(call, checkClass(klass))
        ELSE AwaitInitialization(call)

countItems(obj, klass, query) ==
  LET call == Call("countItems", obj, [klass |-> klass, query |-> query])
  IN /\ StartRead
     /\ IF checkClass(klass).type = "throw"
        THEN Reject(call, checkClass(klass))
        ELSE AwaitInitialization(call)

\* initializeObjectDatabase(), called by the user: the call is kept with the
\* lifecycle it found
initializeObjectDatabase(obj) ==
  /\ StartRead
  /\ AwaitInitialization(Call("initializeObjectDatabase", obj, [lifecycle |-> Lifecycle]))

\* forEachItems(klass, {query, batchSize}, fn)
forEachItems(obj, klass, query, batchSize) ==
  LET call == Call("forEachItems", obj,
                   [klass |-> klass, query |-> query, batchSize |-> batchSize])
  IN /\ StartRead
     /\ IF checkClass(klass).type = "throw"
        THEN Reject(call, checkClass(klass))
        ELSE AwaitInitialization(call)

findAndDeleteItems(obj, klass, query) ==
  LET call == Call("findAndDeleteItems", obj, [klass |-> klass, query |-> query])
  IN /\ StartWrite
     /\ IF checkClass(klass).type = "throw"
        THEN Reject(call, checkClass(klass))
        ELSE AwaitInitialization(call)

\* the isInsideTransaction getter
isInsideTransaction(obj) ==
  /\ StartRead
  /\ UNCHANGED <<storeVars, lifecycleVars>>
  /\ last' = Done(Call("isInsideTransaction", obj, Undefined),
                  Return(Bool(IsInsideTransaction(obj))),
                  Seen(Nothing, <<storeVars, lifecycleVars>>' # <<storeVars, lifecycleVars>>))

\* transaction(fn): on a transaction scope fn(this); on the root, initialize
\* and open a physical transaction
transaction(obj) ==
  LET call == Call("transaction", obj, Undefined)
  IN /\ StartRead
     /\ Len(frames) < MaxDepth
     /\ IF IsInsideTransaction(obj)
        THEN /\ frames' = Append(frames, [physical |-> FALSE, this |-> obj, scope |-> obj,
                                          before |-> items])
             /\ UNCHANGED <<items, writes, last, scan, lifecycleVars>>
        ELSE AwaitInitialization(call)

\* a bug: the error is caught and another one raised
transactionRethrowWrapped(e) == Error("transaction failed")

\* the error transaction() raises when fn raised e: neither `return await
\* fn(this)` nor `return await this.database.transaction(...)` is in a try
transactionRethrow(e) == e

\* what a transaction() call saw: whether it opened the physical transaction,
\* the committed table when it was called, the writes made in the transaction
\* when its body ended, the error its body raised
BodySeen(top, raised) ==
  [physical |-> top.physical, before |-> top.before, writes |-> writes, raised |-> raised]

\* a bug: fn runs outside database.transaction(), nothing is committed
CommittedOnReturnLost(top) == items

\* the committed table once the body of `top` returned: database.transaction()
\* commits the writes made through tr; fn(this) on a transaction scope
\* commits nothing
CommittedOnReturn(top) == IF top.physical THEN View(top.scope) ELSE items

\* the innermost running body returns: the transaction() call that invoked it
\* returns, and the table store commits if that call opened the transaction
TransactionBodyReturns ==
  /\ frames # <<>>
  /\ LET top == frames[Len(frames)] IN
       /\ frames' = SubSeq(frames, 1, Len(frames) - 1)
       /\ last' = Done(Call("transaction", top.this, Undefined), Return(Undefined),
                       BodySeen(top, Undefined))
       /\ items' = CommittedOnReturn(top)
       /\ writes' = IF top.physical THEN NoWrites ELSE writes
  /\ emitted' = <<>>
  /\ UNCHANGED <<revision, instances, nWrites, scan, lifecycleVars>>

\* the innermost running body raises e (its own error, or the error of the call
\* that just failed in it): the table store aborts if that transaction() call
\* opened the transaction, and transaction() raises
TransactionBodyThrows(e) ==
  /\ frames # <<>>
  /\ LET top == frames[Len(frames)] IN
       /\ frames' = SubSeq(frames, 1, Len(frames) - 1)
       /\ last' = Done(Call("transaction", top.this, Undefined), Throw(transactionRethrow(e)),
                       BodySeen(top, e))
       /\ IF top.physical
          THEN writes' = NoWrites /\ items' = items
          ELSE UNCHANGED <<items, writes>>
  /\ emitted' = <<>>
  /\ UNCHANGED <<revision, instances, nWrites, scan, lifecycleVars>>

\* the errors a body can raise now
Throwable ==
  {Error(u) : u \in UserErrors} \cup
  (IF last.out.type = "throw" THEN {last.out.error} ELSE {})

\* ------------------------------------------- initializeObjectDatabase, by step
\* a bug: the flag is not set before the notification
hasBeenInitializedAtEmitUnset == hasBeenInitialized

\* this.hasBeenInitialized = true, the statement before
\* `await this.emit('didInitialize')`: the flag while the listeners run
hasBeenInitializedAtEmit == TRUE

\* await this.database.initializeDatabase()
InitializeDatabase ==
  /\ initPc = "initializeDatabase"
  /\ initPc' = "createObjectDatabaseIfDoesNotExist"
  /\ emitted' = <<>>
  /\ log' = Append(log, "initializeDatabase")
  /\ UNCHANGED <<revision, instances, nWrites, storeVars, last, record, hasBeenInitialized,
                 isInitializing, initErr, lockHeld, pending>>

\* a bug: the lock is taken and the upgrade runs after a creation too
afterCreateObjectDatabaseAlwaysUpgrading(hasBeenCreated) == "lockDatabase"

\* a bug: the upgrade runs without the lock
afterCreateObjectDatabaseUnlocked(hasBeenCreated) ==
  IF hasBeenCreated THEN "removeTablesMarkedAsRemoved" ELSE "upgradeObjectDatabase"

\* `if (hasBeenCreated) {...} else {...}`: what initializeObjectDatabase() awaits next
afterCreateObjectDatabase(hasBeenCreated) ==
  IF hasBeenCreated THEN "removeTablesMarkedAsRemoved" ELSE "lockDatabase"

\* hasBeenCreated = await this.createObjectDatabaseIfDoesNotExist(): one store
\* transaction that loads the record and creates it when it is missing
CreateObjectDatabaseIfDoesNotExist ==
  /\ initPc = "createObjectDatabaseIfDoesNotExist"
  /\ IF record = Undefined
     THEN /\ record' = [version |-> VERSION]
          /\ emitted' = <<"didCreate">>
          /\ log' = log \o <<"store.get", "store.put", "didCreate">>
     ELSE /\ record' = record
          /\ emitted' = <<>>
          /\ log' = log \o <<"store.get">>
  /\ initPc' = afterCreateObjectDatabase(record = Undefined)
  /\ UNCHANGED <<revision, instances, nWrites, storeVars, last, hasBeenInitialized,
                 isInitializing, initErr, lockHeld, pending>>

\* await this.database.removeTablesMarkedAsRemoved(); this.hasBeenInitialized = true
RemoveTablesMarkedAsRemoved ==
  /\ initPc = "removeTablesMarkedAsRemoved"
  /\ hasBeenInitialized' = hasBeenInitializedAtEmit
  /\ initPc' = "emitDidInitialize"
  /\ emitted' = <<>>
  /\ log' = Append(log, "removeTablesMarkedAsRemoved")
  /\ UNCHANGED <<revision, instances, nWrites, storeVars, last, record,
                 isInitializing, initErr, lockHeld, pending>>

\* await this.database.lockDatabase()
LockDatabase ==
  /\ initPc = "lockDatabase"
  /\ ~lockHeld
  /\ lockHeld' = TRUE
  /\ initPc' = "upgradeObjectDatabase"
  /\ emitted' = <<>>
  /\ log' = Append(log, "lockDatabase")
  /\ UNCHANGED <<revision, instances, nWrites, storeVars, last, record, hasBeenInitialized,
                 isInitializing, initErr, pending>>

\* a bug: a record of the code's version is upgraded again
upgradeDecisionRepeating(version) ==
  IF version > VERSION THEN "throw" ELSE "upgrade"

\* a bug: a record of a greater version is upgraded like one of a lower version
upgradeDecisionOverwriting(version) ==
  IF version = VERSION THEN "return" ELSE "upgrade"

\* upgradeObjectDatabase(): the two tests on the version of the record
upgradeDecision(version) ==
  IF version = VERSION THEN "return"
  ELSE IF version > VERSION THEN "throw"
  ELSE "upgrade"

\* await this.upgradeObjectDatabase(), under the lock
UpgradeObjectDatabase ==
  /\ initPc = "upgradeObjectDatabase"
  /\ LET d == upgradeDecision(record.version) IN
       CASE d = "return" ->
              /\ emitted' = <<>>
              /\ log' = log \o <<"store.get">>
              /\ UNCHANGED <<record, initErr>>
         [] d = "throw" ->
              /\ initErr' = VersionDowngrade
              /\ record' = record
              /\ emitted' = <<>>
              /\ log' = log \o <<"store.get">>
         [] d = "upgrade" ->
              /\ record' = [record EXCEPT !.version = VERSION]
              /\ initErr' = initErr
              /\ emitted' = <<"upgradeDidStart", "upgradeDidStop">>
              /\ log' = log \o <<"store.get", "upgradeDidStart", "store.put", "upgradeDidStop">>
  /\ initPc' = "unlockDatabase"
  /\ UNCHANGED <<revision, instances, nWrites, storeVars, last, hasBeenInitialized,
                 isInitializing, lockHeld, pending>>

\* a bug: the lock is released only when the upgrade did not fail
lockHeldAfterUpgradeKept(error) == error # Undefined

\* whether the lock is still held after the upgrade ended with an error or
\* without: `finally { await this.database.unlockDatabase(); }`
lockHeldAfterUpgrade(error) == FALSE

\* finally { await this.database.unlockDatabase() }; then either
\* this.hasBeenInitialized = true, or the upgrade's error leaves through the
\* outer finally { this.isInitializing = false } to the suspended call
UnlockDatabase ==
  /\ initPc = "unlockDatabase"
  /\ lockHeld' = lockHeldAfterUpgrade(initErr)
  /\ emitted' = <<>>
  /\ IF initErr = Undefined
     THEN /\ hasBeenInitialized' = hasBeenInitializedAtEmit
          /\ initPc' = "emitDidInitialize"
          /\ log' = Append(log, "unlockDatabase")
          /\ UNCHANGED <<isInitializing, initErr, pending, last>>
     ELSE /\ isInitializing' = FALSE
          /\ initPc' = "idle"
          /\ initErr' = Undefined
          /\ pending' = Undefined
          /\ log' = <<>>
          /\ last' = Done(pending, Throw(initErr), Nothing)
          /\ hasBeenInitialized' = hasBeenInitialized
  /\ UNCHANGED <<revision, instances, nWrites, storeVars, record>>

\* await this.emit('didInitialize'); finally { this.isInitializing = false };
\* the suspended call goes on
EmitDidInitialize ==
  /\ initPc = "emitDidInitialize"
  /\ isInitializing' = FALSE
  /\ initPc' = "idle"
  /\ pending' = Undefined
  /\ emitted' = <<"didInitialize">>
  /\ log' = <<>>
  /\ Resume(pending)
  /\ UNCHANGED <<revision, instances, nWrites, record, hasBeenInitialized, initErr, lockHeld>>

\* saveObjectDatabaseRecord(record) in upgradeObjectDatabase() fails in the
\* store: the error leaves the routine after upgradeDidStart, before upgradeDidStop
UpgradeObjectDatabaseSaveFails ==
  /\ initPc = "upgradeObjectDatabase"
  /\ upgradeDecision(record.version) = "upgrade"
  /\ initErr' = StoreFailure
  /\ emitted' = <<"upgradeDidStart">>
  /\ log' = log \o <<"store.get", "upgradeDidStart", "store.put">>
  /\ initPc' = "unlockDatabase"
  /\ UNCHANGED <<revision, instances, nWrites, storeVars, last, record, hasBeenInitialized,
                 isInitializing, lockHeld, pending>>

\* the store rejects the call the initialization awaits: initializeDatabase(),
\* the transaction of createObjectDatabaseIfDoesNotExist(),
\* removeTablesMarkedAsRemoved() or lockDatabase().  None is in the inner try:
\* the error leaves through `finally { this.isInitializing = false }` to the
\* suspended call
StoreCalls ==
  {"initializeDatabase", "createObjectDatabaseIfDoesNotExist",
   "removeTablesMarkedAsRemoved", "lockDatabase"}
InitializationStoreCallFails ==
  /\ initPc \in StoreCalls
  /\ isInitializing' = FALSE
  /\ initPc' = "idle"
  /\ pending' = Undefined
  /\ emitted' = <<>>
  /\ log' = <<>>
  /\ last' = Done(pending, Throw(StoreFailure), Nothing)
  /\ UNCHANGED <<revision, instances, nWrites, storeVars, record, hasBeenInitialized,
                 initErr, lockHeld>>

\* a listener of didInitialize throws e and `await this.emit('didInitialize')`
\* rejects: the flag was set before, the finally resets isInitializing, the
\* suspended call fails with e
EmitDidInitializeFails(e) ==
  /\ initPc = "emitDidInitialize"
  /\ isInitializing' = FALSE
  /\ initPc' = "idle"
  /\ pending' = Undefined
  /\ emitted' = <<"didInitialize">>
  /\ log' = <<>>
  /\ last' = Done(pending, Throw(e), Nothing)
  /\ UNCHANGED <<revision, instances, nWrites, storeVars, record, hasBeenInitialized,
                 initErr, lockHeld>>

\* destroyObjectDatabase(): the store drops the tables and the record; the
\* newer revisions then reset hasBeenInitialized, the oldest does not
hasBeenInitializedAfterDestroy ==
  IF revision = "notes.js" THEN FALSE ELSE hasBeenInitialized

destroyObjectDatabase(obj) ==
  /\ StartRead
  /\ items' = [k \in Keys |-> Undefined]
  /\ record' = Undefined
  /\ hasBeenInitialized' = hasBeenInitializedAfterDestroy
  /\ last' = Done(Call("destroyObjectDatabase", obj, Undefined), Return(Undefined), Nothing)
  /\ UNCHANGED <<writes, frames, scan, isInitializing, initPc, initErr, lockHeld,
                 pending, log>>

\* ------------------------------------------------------------- the creator
\* The values of options.classes: a string, an array, a plain object.  A
\* property name is a string; a class is a string or { name, indexes }; a
\* declared index is a property name, an array of property names or
\* { properties, projection }.
String(value) == [type |-> "string", value |-> value]
Array(elements) == [type |-> "array", elements |-> elements]
IndexObject(properties, projection) ==
  [type |-> "object", properties |-> properties, projection |-> projection]
ClassObject(name, indexes) == [type |-> "object", name |-> name, indexes |-> indexes]
isString(v) == v.type = "string"
isArray(v) == v.type = "array"
isPlainObject(v) == v.type = "object"

\* fn: the membership function of the class, with fn.displayName
fn(name) == [type |-> "function", displayName |-> makeIndexName(name)]

\* a bug: no index is added for the class itself
indexesDeclaredOnly(klass) ==
  IF klass.indexes = Undefined THEN <<>> ELSE klass.indexes.elements

\* indexes = _.cloneDeep(klass.indexes) || []; indexes.unshift([])
indexes(klass) ==
  <<Array(<<>>)>> \o (IF klass.indexes = Undefined THEN <<>> ELSE klass.indexes.elements)

\* if (index.projection) index.projection.push('_classes'): an array, even an
\* empty one, is truthy
projection(declared) ==
  IF declared # Undefined
  THEN Array(Append(declared.elements, String(RESERVED)))
  ELSE declared

\* the body of indexes.forEach: the index pushed to table.indexes
index(membership, declared) ==
  LET object == IF ~isPlainObject(declared) THEN IndexObject(declared, Undefined)
                ELSE declared
      properties == IF ~isArray(object.properties) THEN <<object.properties>>
                    ELSE object.properties.elements
  IN  IndexObject(Array(<<membership>> \o properties), projection(object.projection))

\* the body of options.classes.forEach: the indexes one class adds to the table
classIndexes(declared) ==
  LET klass == IF isString(declared) THEN ClassObject(declared.value, Undefined)
               ELSE declared
      all == indexes(klass)
  IN  [i \in 1..Len(all) |-> index(fn(klass.name), all[i])]

\* table.indexes after (options.classes || []).forEach
RECURSIVE tableIndexes(_)
tableIndexes(classes) ==
  IF classes = <<>> THEN <<>>
  ELSE classIndexes(Head(classes)) \o tableIndexes(Tail(classes))

\* creator(options): the checks of options.name and options.url, then the
\* table handed to KindaDB.create
creatorResult(options) ==
  IF ~options.name THEN Throw(Error("name is missing"))
  ELSE IF ~options.url THEN Throw(Error("url is missing"))
  ELSE Return([name |-> "Objects", indexes |-> tableIndexes(options.classes)])

\* the instance is constructed: nothing was called on it before
creator(options) ==
  /\ last.call.op = "none"
  /\ last' = Done(Call("creator", Root, options), creatorResult(options), Nothing)
  /\ emitted' = <<>>
  /\ UNCHANGED <<revision, instances, nWrites, storeVars, lifecycleVars>>

\* the declarations the instance is constructed with
Properties == {String("country"), String("name")}
PropertyLists == {<<>>, <<String("country")>>, <<String("name"), String("country")>>}
PlainIndexes == Properties \cup {Array(l) : l \in PropertyLists}
Projections == {Undefined, Array(<<>>), Array(<<String("name")>>)}
DeclaredIndexes ==
  PlainIndexes \cup {IndexObject(p, q) : p \in PlainIndexes, q \in Projections}
DeclaredIndexLists ==
  {<<>>} \cup {<<a>> : a \in DeclaredIndexes}
         \cup {<<a, b>> : a \in DeclaredIndexes, b \in PlainIndexes}
DeclaredClasses(name) ==
  {String(name), ClassObject(name, Undefined)}
    \cup {ClassObject(name, Array(l)) : l \in DeclaredIndexLists}
DeclaredClassLists ==
  {<<>>} \cup {<<c>> : c \in DeclaredClasses("Person") \cup DeclaredClasses("Account")}
         \cup {<<c, d>> : c \in DeclaredClasses("Person"), d \in DeclaredClasses("Account")}

\* -------------------------------------- several instances sharing one store
\* Instances of the same database name opened by other processes on the same
\* store.  Each runs initializeObjectDatabase() as the code of this module
\* does; they share the LifecycleRecord (`record`) and the database-level
\* lock (`lockHeld`) and nothing else.
Instances == {1, 2}

\* an instance after construction
Fresh ==
  [pc |-> "idle", hasBeenInitialized |-> FALSE, isInitializing |-> FALSE,
   started |-> FALSE, hasBeenCreated |-> FALSE, holdsLock |-> FALSE,
   error |-> Undefined]

\* what the instances leave alone
rootVars ==
  <<revision, items, hasBeenInitialized, isInitializing, initPc, initErr, pending,
    frames, writes, last, nWrites, scan, emitted, log>>

\* tr.put(key, record, {errorIfExists, createIfMissing: !errorIfExists})
StorePut(existing, errorIfExists) ==
  IF existing # Undefined /\ errorIfExists THEN "throw" ELSE "stored"

\* the store's lockDatabase() returns once no one holds the lock
StoreLockIsFree == ~lockHeld

\* a bug: the record is saved without errorIfExists
createObjectDatabaseSaveOverwriting(existing) == StorePut(existing, FALSE)

\* await this.saveObjectDatabaseRecord(record, tr, true)
createObjectDatabaseSave(existing) == StorePut(existing, TRUE)

\* a class-scoped operation is started on an instance that is not initialized:
\* initializeObjectDatabase() passes its guards and sets isInitializing
InstanceStarts(i) ==
  /\ instances[i].pc = "idle"
  /\ ~instances[i].hasBeenInitialized
  /\ instances' = [instances EXCEPT ![i] =
       [@ EXCEPT !.pc = "initializeDatabase", !.isInitializing = TRUE,
                 !.started = TRUE, !.error = Undefined]]
  /\ UNCHANGED <<rootVars, record, lockHeld>>

\* await this.database.initializeDatabase()
InstanceInitializesDatabase(i) ==
  /\ instances[i].pc = "initializeDatabase"
  /\ instances' = [instances EXCEPT ![i].pc = "loadObjectDatabaseRecord"]
  /\ UNCHANGED <<rootVars, record, lockHeld>>

\* createObjectDatabaseIfDoesNotExist(): record = await
\* this.loadObjectDatabaseRecord(tr, false); a record found ends the
\* transaction with hasBeenCreated = false
InstanceLoadsRecord(i) ==
  /\ instances[i].pc = "loadObjectDatabaseRecord"
  /\ instances' = [instances EXCEPT ![i].pc =
       IF record = Undefined THEN "saveObjectDatabaseRecord"
       ELSE afterCreateObjectDatabase(FALSE)]
  /\ UNCHANGED <<rootVars, record, lockHeld>>

\* createObjectDatabaseIfDoesNotExist(): `if (!record)` the record is saved
\* with errorIfExists; the store's error leaves createObjectDatabaseIfDoesNotExist()
\* and initializeObjectDatabase(), whose finally resets isInitializing
InstanceSavesRecord(i) ==
  /\ instances[i].pc = "saveObjectDatabaseRecord"
  /\ IF createObjectDatabaseSave(record) = "stored"
     THEN /\ record' = [version |-> VERSION]
          /\ instances' = [instances EXCEPT ![i] =
               [@ EXCEPT !.hasBeenCreated = TRUE,
                         !.pc = afterCreateObjectDatabase(TRUE)]]
     ELSE /\ record' = record
          /\ instances' = [instances EXCEPT ![i] =
               [@ EXCEPT !.pc = "idle", !.isInitializing = FALSE,
                         !.error = AlreadyExists]]
  /\ UNCHANGED <<rootVars, lockHeld>>

\* await this.database.removeTablesMarkedAsRemoved()
InstanceRemovesTables(i) ==
  /\ instances[i].pc = "removeTablesMarkedAsRemoved"
  /\ instances' = [instances EXCEPT ![i].pc = "emitDidInitialize"]
  /\ UNCHANGED <<rootVars, record, lockHeld>>

\* await this.database.lockDatabase()
InstanceLocks(i) ==
  /\ instances[i].pc = "lockDatabase"
  /\ StoreLockIsFree
  /\ lockHeld' = TRUE
  /\ instances' = [instances EXCEPT ![i] =
       [@ EXCEPT !.holdsLock = TRUE, !.pc = "upgradeObjectDatabase"]]
  /\ UNCHANGED <<rootVars, record>>

\* await this.upgradeObjectDatabase()
InstanceUpgrades(i) ==
  /\ instances[i].pc = "upgradeObjectDatabase"
  /\ record # Undefined
  /\ LET d == upgradeDecision(record.version) IN
       /\ record' = IF d = "upgrade" THEN [version |-> VERSION] ELSE record
       /\ instances' = [instances EXCEPT ![i] =
            [@ EXCEPT !.pc = "unlockDatabase",
                      !.error = IF d = "throw" THEN VersionDowngrade ELSE Undefined]]
  /\ UNCHANGED <<rootVars, lockHeld>>

\* finally { await this.database.unlockDatabase() }, and the error of the
\* upgrade leaves initializeObjectDatabase()
InstanceUnlocks(i) ==
  /\ instances[i].pc = "unlockDatabase"
  /\ lockHeld' = (IF instances[i].holdsLock THEN lockHeldAfterUpgrade(instances[i].error)
                  ELSE lockHeld)
  /\ instances' = [instances EXCEPT ![i] =
       IF instances[i].error = Undefined
       THEN [@ EXCEPT !.holdsLock = FALSE, !.pc = "emitDidInitialize"]
       ELSE [@ EXCEPT !.holdsLock = FALSE, !.pc = "idle", !.isInitializing = FALSE]]
  /\ UNCHANGED <<rootVars, record>>

\* this.hasBeenInitialized = true; await this.emit('didInitialize'); finally
InstanceDidInitialize(i) ==
  /\ instances[i].pc = "emitDidInitialize"
  /\ instances' = [instances EXCEPT ![i] =
       [@ EXCEPT !.hasBeenInitialized = TRUE, !.isInitializing = FALSE, !.pc = "idle"]]
  /\ UNCHANGED <<rootVars, record, lockHeld>>

\* a step of the initialization running on an instance
InstanceStep(i) ==
  \/ InstanceInitializesDatabase(i)
  \/ InstanceLoadsRecord(i)
  \/ InstanceSavesRecord(i)
  \/ InstanceRemovesTables(i)
  \/ InstanceLocks(i)
  \/ InstanceUpgrades(i)
  \/ InstanceUnlocks(i)
  \/ InstanceDidInitialize(i)


\* ------------------------------------------------------------ specification
\* A new instance over a store that is either fresh (no LifecycleRecord, no
\* item) or was filled by earlier runs (a record of some version, and items).
InitialTables ==
  {[k \in Keys |-> Undefined],
   [k \in Keys |-> IF k = "aaa" THEN Encode(<<"Account">>, [country |-> "France"])
                   ELSE Encode(<<"Account", "Person">>, [country |-> "USA"])]}

InitOf(file) ==
  /\ revision = file
  /\ record \in {Undefined} \cup {[version |-> v] : v \in 0..(VERSION + 1)}
  /\ items \in InitialTables
  /\ record = Undefined => \A k \in Keys : items[k] = Undefined
  /\ hasBeenInitialized = FALSE
  /\ isInitializing = FALSE
  /\ initPc = "idle"
  /\ initErr = Undefined
  /\ lockHeld = FALSE
  /\ pending = Undefined
  /\ frames = <<>>
  /\ writes = NoWrites
  /\ last = Ended(Call("none", Root, Undefined), Return(Undefined), Nothing)
  /\ nWrites = 0
  /\ scan = Undefined
  /\ emitted = <<>>
  /\ log = <<>>
  /\ instances = [i \in Instances |-> Fresh]

Init == InitOf("notes.js")
InitPart000 == InitOf("part_000")

\* One caller, which awaits each call before it starts the next one (as the
\* test suite does).  Inside a transaction() body it reads on either scope and
\* writes through the transaction scope; from the root it writes, and opens a
\* transaction, only when no transaction is running: how the table store
\* interleaves two writers is the store's business.
Awaited == initPc = "idle"
Serial(obj) == obj = Root => frames = <<>>

Next ==
  \/ \E obj \in Scopes, c \in ClassArgs, k \in Keys, e \in BOOLEAN :
       Awaited /\ getItem(obj, c, k, e)
  \/ \E obj \in Scopes, C \in ClassListArgs, k \in Keys, v \in Values, o \in PutOptions :
       Awaited /\ Serial(obj) /\ putItem(obj, C, k, v, o.createIfMissing, o.errorIfExists)
  \/ \E obj \in Scopes, x \in NonArrays, k \in Keys, v \in Values :
       Awaited /\ Serial(obj) /\ putItemNonArray(obj, x, k, v)
  \/ \E obj \in Scopes, c \in ClassArgs, k \in Keys, e \in BOOLEAN :
       Awaited /\ Serial(obj) /\ deleteItem(obj, c, k, e)
  \/ \E obj \in Scopes, c \in ClassArgs, q \in Queries : Awaited /\ findItems(obj, c, q)
  \/ \E obj \in Scopes, c \in ClassArgs, q \in Queries :
       Awaited /\ Serial(obj) /\ findAndDeleteItems(obj, c, q)
  \/ \E obj \in Scopes : Awaited /\ isInsideTransaction(obj)
  \/ \E obj \in Scopes : Awaited /\ Serial(obj) /\ transaction(obj)
  \/ Awaited /\ TransactionBodyReturns
  \/ \E e \in Throwable : Awaited /\ TransactionBodyThrows(e)
  \/ InitializeDatabase
  \/ CreateObjectDatabaseIfDoesNotExist
  \/ RemoveTablesMarkedAsRemoved
  \/ LockDatabase
  \/ UpgradeObjectDatabase
  \/ UnlockDatabase
  \/ EmitDidInitialize

\* the queries of a process that opens a new database, or one holding any table, one call
\* at a time on the root: the reads above and getItems, countItems, findItems
\* with an order, and forEachItems with its visitor
KeyLists == {<<>>} \cup {<<k>> : k \in Keys} \cup {<<k1, k2>> : k1 \in Keys, k2 \in Keys}
Orders == {"country"}
BatchSizes == 1..MaxBatchSize
Idle == Awaited /\ scan = Undefined

InitQueries ==
  /\ revision = "notes.js"
  /\ record \in {Undefined, [version |-> VERSION]}
  /\ items \in [Keys -> Records \cup {Undefined}]
  /\ record = Undefined => \A k \in Keys : items[k] = Undefined
  /\ hasBeenInitialized = FALSE
  /\ isInitializing = FALSE
  /\ initPc = "idle"
  /\ initErr = Undefined
  /\ lockHeld = FALSE
  /\ pending = Undefined
  /\ frames = <<>>
  /\ writes = NoWrites
  /\ last = Ended(Call("none", Root, Undefined), Return(Undefined), Nothing)
  /\ nWrites = 0
  /\ scan = Undefined
  /\ emitted = <<>>
  /\ log = <<>>
  /\ instances = [i \in Instances |-> Fresh]

NextQueries ==
  \/ \E c \in ClassNames, K \in KeyLists, e \in BOOLEAN : Idle /\ getItems(Root, c, K, e)
  \/ \E c \in ClassNames, q \in Queries : Idle /\ findItems(Root, c, q)
  \/ \E c \in ClassNames, q \in Queries, o \in Orders : Idle /\ findItemsOrder(Root, c, q, o)
  \/ \E c \in ClassNames, q \in Queries : Idle /\ countItems(Root, c, q)
  \/ \E c \in ClassNames, q \in Queries, n \in BatchSizes : Idle /\ forEachItems(Root, c, q, n)
  \/ VisitorReturns
  \/ \E e \in UserErrors : VisitorThrows(e)
  \/ InitializeDatabase
  \/ CreateObjectDatabaseIfDoesNotExist
  \/ RemoveTablesMarkedAsRemoved
  \/ LockDatabase
  \/ UpgradeObjectDatabase
  \/ UnlockDatabase
  \/ EmitDidInitialize

SpecQueries == InitQueries /\ [][NextQueries]_vars

\* A caller that keeps its options object and gives it to the next call, as
\* the test 'find and delete items' does.  injectClassInQueryOption(klass,
\* options) assigns options.query[klass + '?'] in the object it was given and
\* returns that object: the query the caller holds after the call has the
\* membership predicate of the class of that call.
QueryOperations == {"findItems", "countItems", "forEachItems", "findAndDeleteItems"}
optionsAfterInjection(klass, query) == injectClassInQueryOption(klass, query)
HeldOptions == optionsAfterInjection(last.call.args.klass, last.call.args.query)
CanReuse == Idle /\ last.call.op \in QueryOperations

NextOptions ==
  \/ \E c \in ClassNames, q \in Queries : Idle /\ findItems(Root, c, q)
  \/ \E c \in ClassNames : CanReuse /\ findItems(Root, c, HeldOptions)
  \/ \E c \in ClassNames, q \in Queries : Idle /\ countItems(Root, c, q)
  \/ \E c \in ClassNames : CanReuse /\ countItems(Root, c, HeldOptions)
  \/ \E c \in ClassNames, q \in Queries : Idle /\ forEachItems(Root, c, q, MaxBatchSize)
  \/ \E c \in ClassNames : CanReuse /\ forEachItems(Root, c, HeldOptions, MaxBatchSize)
  \/ VisitorReturns
  \/ \E c \in ClassNames, q \in Queries : Idle /\ findAndDeleteItems(Root, c, q)
  \/ \E c \in ClassNames : CanReuse /\ findAndDeleteItems(Root, c, HeldOptions)
  \/ InitializeDatabase
  \/ CreateObjectDatabaseIfDoesNotExist
  \/ RemoveTablesMarkedAsRemoved
  \/ LockDatabase
  \/ UpgradeObjectDatabase
  \/ UnlockDatabase
  \/ EmitDidInitialize

SpecOptions == InitQueries /\ [][NextOptions]_vars

\* callers that do not wait for each other on the root of a new instance:
\* calls start while the initialization that an earlier call started is running
RaceValue == [country |-> "France"]
NextRace ==
  \/ \E c \in ClassNames, k \in Keys : getItem(Root, c, k, FALSE)
  \/ \E C \in ClassLists, k \in Keys : putItem(Root, C, k, RaceValue, TRUE, FALSE)
  \/ frames = <<>> /\ transaction(Root)
  \/ TransactionBodyReturns
  \/ initializeObjectDatabase(Root)
  \/ InitializeDatabase
  \/ CreateObjectDatabaseIfDoesNotExist
  \/ RemoveTablesMarkedAsRemoved
  \/ LockDatabase
  \/ UpgradeObjectDatabase
  \/ UnlockDatabase
  \/ EmitDidInitialize

SpecRace == Init /\ [][NextRace]_vars

\* the lifecycle of one instance whose caller waits for each call: calls that
\* trigger the initialization on the root and on transaction scopes, the
\* initialization with a store that may fail to save the upgraded record, and
\* destroyObjectDatabase()
NextLifecycle ==
  \/ \E obj \in Scopes, c \in ClassNames : Awaited /\ getItem(obj, c, "aaa", FALSE)
  \/ \E obj \in Scopes : Awaited /\ transaction(obj)
  \/ Awaited /\ TransactionBodyReturns
  \/ \E obj \in Scopes : Awaited /\ initializeObjectDatabase(obj)
  \/ Awaited /\ destroyObjectDatabase(Root)
  \/ InitializeDatabase
  \/ CreateObjectDatabaseIfDoesNotExist
  \/ RemoveTablesMarkedAsRemoved
  \/ LockDatabase
  \/ UpgradeObjectDatabase
  \/ UpgradeObjectDatabaseSaveFails
  \/ UnlockDatabase
  \/ EmitDidInitialize

SpecLifecycle == Init /\ [][NextLifecycle]_vars

\* the same lifecycle with the oldest revision loaded
SpecLifecyclePart000 == InitPart000 /\ [][NextLifecycle]_vars

\* calls with arguments that fail the validation, made at any time on the
\* root and on transaction scopes: before, while and after the initialization
\* that a valid getItem starts
NextValidation ==
  \/ \E obj \in Scopes, c \in ClassArgs : Awaited /\ getItem(obj, c, "aaa", FALSE)
  \/ \E obj \in Scopes, e \in BOOLEAN : getItem(obj, "", "bbb", e)
  \/ \E obj \in Scopes, e \in BOOLEAN : deleteItem(obj, "", "aaa", e)
  \/ \E obj \in Scopes, e \in BOOLEAN : getItems(obj, "", <<"aaa">>, e)
  \/ \E obj \in Scopes, q \in Queries : findItems(obj, "", q)
  \/ \E obj \in Scopes, q \in Queries : countItems(obj, "", q)
  \/ \E obj \in Scopes, q \in Queries : forEachItems(obj, "", q, 1)
  \/ \E obj \in Scopes, q \in Queries : findAndDeleteItems(obj, "", q)
  \/ \E obj \in Scopes : putItem(obj, <<>>, "aaa", RaceValue, TRUE, FALSE)
  \/ \E obj \in Scopes, x \in NonArrays : putItemNonArray(obj, x, "aaa", RaceValue)
  \/ \E op \in ClassOperations, obj \in Scopes, x \in NonStrings :
       checkClassNonString(op, obj, x)
  \/ Awaited /\ frames = <<>> /\ transaction(Root)
  \/ Awaited /\ TransactionBodyReturns
  \/ InitializeDatabase
  \/ CreateObjectDatabaseIfDoesNotExist
  \/ RemoveTablesMarkedAsRemoved
  \/ LockDatabase
  \/ UpgradeObjectDatabase
  \/ UnlockDatabase
  \/ EmitDidInitialize

SpecValidation == Init /\ [][NextValidation]_vars

\* deleteItem on the root, step by step, and putItem calls of other callers
\* on the root that the table store runs in between, except on a key the
\* open transaction holds
NextDelete ==
  \/ \E c \in ClassNames, k \in Keys : Awaited /\ getItem(Root, c, k, FALSE)
  \/ \E C \in ClassLists, k \in Keys :
       Awaited /\ ~Held(k) /\ putItem(Root, C, k, RaceValue, TRUE, FALSE)
  \/ \E c \in ClassNames, k \in Keys, e \in BOOLEAN : Awaited /\ DeleteItemReads(c, k, e)
  \/ DeleteItemDeletes
  \/ InitializeDatabase
  \/ CreateObjectDatabaseIfDoesNotExist
  \/ RemoveTablesMarkedAsRemoved
  \/ LockDatabase
  \/ UpgradeObjectDatabase
  \/ UnlockDatabase
  \/ EmitDidInitialize

SpecDelete == Init /\ [][NextDelete]_vars

\* the lifecycle of one instance with a store whose calls may fail at any
\* step of the initialization and listeners of didInitialize that may throw,
\* or issue a getItem on the root while the notification is delivered
NextFailures ==
  \/ \E obj \in Scopes, c \in ClassNames : Awaited /\ getItem(obj, c, "aaa", FALSE)
  \/ \E c \in ClassNames : initPc = "emitDidInitialize" /\ getItem(Root, c, "bbb", FALSE)
  \/ \E obj \in Scopes : Awaited /\ transaction(obj)
  \/ Awaited /\ TransactionBodyReturns
  \/ \E obj \in Scopes : Awaited /\ initializeObjectDatabase(obj)
  \/ Awaited /\ destroyObjectDatabase(Root)
  \/ InitializeDatabase
  \/ CreateObjectDatabaseIfDoesNotExist
  \/ RemoveTablesMarkedAsRemoved
  \/ LockDatabase
  \/ UpgradeObjectDatabase
  \/ UpgradeObjectDatabaseSaveFails
  \/ UnlockDatabase
  \/ EmitDidInitialize
  \/ InitializationStoreCallFails
  \/ \E u \in UserErrors : EmitDidInitializeFails(Error(u))

SpecFailures == Init /\ [][NextFailures]_vars

\* An instance is constructed with some class declarations.
NextCreator ==
  \/ \E classes \in DeclaredClassLists :
       creator([name |-> TRUE, url |-> TRUE, classes |-> classes])
  \/ \E name, url \in BOOLEAN :
       creator([name |-> name, url |-> url, classes |-> <<String("Person")>>])

\* the store the instance is constructed on is fresh
InitCreator == Init /\ record = Undefined

SpecCreator == InitCreator /\ [][NextCreator]_vars

\* Several processes open the same database on one store and each starts its
\* first class-scoped operation; the store runs their calls in any order.
NextInstances ==
  \/ \E i \in Instances : InstanceStarts(i)
  \/ \E i \in Instances : InstanceInitializesDatabase(i)
  \/ \E i \in Instances : InstanceLoadsRecord(i)
  \/ \E i \in Instances : InstanceSavesRecord(i)
  \/ \E i \in Instances : InstanceRemovesTables(i)
  \/ \E i \in Instances : InstanceLocks(i)
  \/ \E i \in Instances : InstanceUpgrades(i)
  \/ \E i \in Instances : InstanceUnlocks(i)
  \/ \E i \in Instances : InstanceDidInitialize(i)

SpecInstances == Init /\ [][NextInstances]_vars

\* the store's calls eventually return: a running initialization goes on, and
\* lockDatabase() returns when the lock is released often enough
SpecInstancesFair ==
  /\ Init
  /\ [][NextInstances]_vars
  /\ \A i \in Instances : WF_vars(InstanceStep(i)) /\ SF_vars(InstanceLocks(i))


\* src/notes.js loaded
Spec == Init /\ [][Next]_vars

\* src/unnamed/part_000 loaded
SpecPart000 == InitPart000 /\ [][Next]_vars

\* ------------------------------------------------------------------ claims
\* the call that ended last, by name and outcome
LastCall(op) == last.call.op = op
LastReturned(op) == last.call.op = op /\ last.out.type = "return"
LastThrew(op) == last.call.op = op /\ last.out.type = "throw"

\* C1 -- round trip: once putItem(C, k, v) has succeeded, getItem(c, k) on the
\* same scope returns {classes: C, value: v} for every class c of C, with
\* either setting of errorIfMissing, and fails with the class-mismatch error
\* for every class that is not in C.
C1_RoundTrip ==
  LastReturned("putItem") =>
    LET obj == last.call.obj
        a == last.call.args
    IN /\ initializeObjectDatabaseEntry(obj) = "return"
       /\ \A c \in ClassNames, e \in BOOLEAN :
            getItemResult(obj, c, a.key, e) =
              IF Contains(a.classes, c)
              THEN Return([classes |-> a.classes, value |-> a.value])
              ELSE Throw(ClassMismatch)

\* a putItem with the one class Person succeeded: Person is in C, Account is not
C1_Witness ==
  /\ LastReturned("putItem")
  /\ last.call.args.classes = <<"Person">>

\* C2 -- class isolation: findItems(c, {query: q}) returns exactly the keys
\* whose stored class list contains c and whose value satisfies q, each once,
\* and each returned item carries the whole class list it is stored with.
C2_ClassIsolation ==
  LastReturned("findItems") =>
    LET view == View(last.call.obj)
        c == last.call.args.klass
        q == last.call.args.query
        found == last.out.value
        expected == {k \in Keys : /\ view[k] # Undefined
                                  /\ Contains(view[k][RESERVED], c)
                                  /\ \A p \in DOMAIN q : view[k][p] = q[p]}
    IN /\ {found[i].key : i \in DOMAIN found} = expected
       /\ Len(found) = Cardinality(expected)
       /\ \A i \in DOMAIN found :
            /\ found[i].classes = view[found[i].key][RESERVED]
            /\ found[i].value = [a \in {"country"} |-> view[found[i].key][a]]

\* both keys are stored, one tagged Account only: findItems(Person) returns
\* the other one alone, with its two classes
C2_Witness ==
  /\ LastReturned("findItems")
  /\ last.call.args.klass = "Person"
  /\ DOMAIN last.call.args.query = {}
  /\ \A k \in Keys : View(last.call.obj)[k] # Undefined
  /\ Len(last.out.value) = 1
  /\ last.out.value[1].classes = <<"Account", "Person">>

\* C3 -- commit visibility: once transaction() on the root has returned, every
\* write its body made through the transaction scope is in the committed
\* table, and a read on the root returns it.
C3_CommitVisibility ==
  LastReturned("transaction") /\ last.call.obj = Root =>
    \A k \in Keys :
      last.seen.writes[k] # Untouched =>
        /\ items[k] = last.seen.writes[k]
        /\ StoreGetItem(View(Root), k, FALSE) = Return(last.seen.writes[k])

\* a transaction on the root returned after its body had put an item
C3_Witness ==
  /\ LastReturned("transaction")
  /\ last.call.obj = Root
  /\ \E k \in Keys : last.seen.writes[k] \in Records /\ last.seen.before[k] # last.seen.writes[k]

\* C4 -- abort atomicity: while a transaction() body runs, the committed table
\* is the one found when transaction() was called, and once the body has
\* raised an error the committed table is still that one and none of the
\* body's writes is left in the transaction.
C4_AbortAtomicity ==
  /\ frames # <<>> => items = frames[1].before
  /\ (LastThrew("transaction") /\ last.call.obj = Root /\ last.seen # Nothing) =>
       /\ items = last.seen.before
       /\ \A obj \in Scopes : View(obj) = last.seen.before

\* a transaction on the root raised after its body had written
C4_Witness ==
  /\ LastThrew("transaction")
  /\ last.call.obj = Root
  /\ last.seen # Nothing
  /\ last.seen.writes # NoWrites

\* C5 -- error propagation: the error transaction() raises is the error its
\* body raised, on the root and on a transaction scope alike.
C5_ErrorPropagation ==
  (LastThrew("transaction") /\ last.seen # Nothing) =>
    last.out.error = last.seen.raised

\* a transaction() called on a transaction scope raised the class-mismatch
\* error of a call that failed in its body
C5_Witness ==
  /\ LastThrew("transaction")
  /\ last.call.obj # Root
  /\ last.seen # Nothing
  /\ last.seen.raised = ClassMismatch
  /\ last.out.error = ClassMismatch

\* C6 -- isInsideTransaction: false on the root in every state, also while a
\* transaction() body runs; true on exactly the scope objects handed to the
\* running bodies; the getter answers that, and reading it changes nothing.
C6_IsInsideTransaction ==
  /\ ~IsInsideTransaction(Root)
  /\ \A obj \in Scopes :
       IsInsideTransaction(obj) <=> \E i \in DOMAIN frames : frames[i].scope = obj
  /\ LastCall("isInsideTransaction") =>
       /\ last.out = Return(Bool(last.call.obj # Root))
       /\ ~last.seen.changed

\* the getter was read on the root while a transaction() body was running
C6_Witness ==
  /\ LastCall("isInsideTransaction")
  /\ last.call.obj = Root
  /\ last.out = Return(Bool(FALSE))
  /\ frames # <<>>
  /\ IsInsideTransaction(CurrentScope)

\* C7 -- flattening: of the transaction() bodies running along the call chain
\* only the outermost opened a physical transaction; every inner one was
\* invoked with the scope transaction() was called on; and when an inner body
\* ends, returning or raising, the enclosing transaction is still open with
\* the inner body's writes in it and nothing of them committed.
C7_Flattening ==
  /\ Cardinality({i \in DOMAIN frames : frames[i].physical}) <= 1
  /\ \A i \in DOMAIN frames :
       i > 1 => /\ ~frames[i].physical
                /\ frames[i].scope = frames[i].this
                /\ frames[i].this = frames[i - 1].scope
  /\ (LastCall("transaction") /\ last.call.obj # Root /\ last.seen # Nothing) =>
       /\ ~last.seen.physical
       /\ frames # <<>>
       /\ writes = last.seen.writes
       /\ items = frames[1].before

\* a transaction() called on a transaction scope returned; the writes made so
\* far are still uncommitted in the enclosing transaction
C7_Witness ==
  /\ LastReturned("transaction")
  /\ last.call.obj # Root
  /\ frames # <<>>
  /\ frames[1].physical
  /\ writes # NoWrites
  /\ items = frames[1].before

\* C8 -- absent key: getItem and deleteItem on a key that is not stored return
\* undefined and false when errorIfMissing is false, fail with the not-found
\* error when it is true, and leave the table as it was.
C8_AbsentKey ==
  ((LastCall("getItem") \/ LastCall("deleteItem"))
     /\ last.seen # Nothing /\ last.seen.found = Undefined) =>
    /\ last.out = IF last.call.args.errorIfMissing THEN Throw(NotFound)
                  ELSE IF LastCall("getItem") THEN Return(Undefined)
                  ELSE Return(Bool(FALSE))
    /\ ~last.seen.changed

\* C9 -- class mismatch whatever errorIfMissing: getItem and deleteItem on a
\* stored key, with a class that is not in the item's class list, fail with
\* the class-mismatch error, and the item stays stored as it was.
C9_ClassMismatch ==
  ((LastCall("getItem") \/ LastCall("deleteItem"))
     /\ last.seen # Nothing /\ last.seen.found # Undefined
     /\ ~Contains(last.seen.found[RESERVED], last.call.args.klass)) =>
    /\ last.out = Throw(ClassMismatch)
    /\ ~last.seen.changed
    /\ View(last.call.obj)[last.call.args.key] = last.seen.found

\* deleteItem with errorIfMissing false failed with the class-mismatch error
C9_Witness ==
  /\ LastThrew("deleteItem")
  /\ ~last.call.args.errorIfMissing
  /\ last.out.error = ClassMismatch
  /\ last.seen.found \in Records

\* C10 -- deleteItem returns true if and only if it removed an item: when it
\* returns, its value is true if the key was stored and false if it was not,
\* the key is no longer stored, and a deleteItem on that key with
\* errorIfMissing false now returns false.
C10_DeleteReturnsWhetherRemoved ==
  LastReturned("deleteItem") =>
    LET obj == last.call.obj
        key == last.call.args.key
    IN /\ last.out.value = Bool(last.seen.found # Undefined)
       /\ last.seen.changed <=> last.seen.found # Undefined
       /\ View(obj)[key] = Undefined
       /\ \A c \in ClassNames :
            LET b == deleteItemBody(View(obj), c, key, FALSE)
            IN /\ b.out.type = "return"
               /\ deleteItemReturn(b.hasBeenDeleted) = Bool(FALSE)

\* C11 -- non-empty class list: putItem given an empty array or a value that
\* is no array fails with its argument error, and every record of the table,
\* committed or written in the open transaction, has a non-empty class list.
StoredRecords ==
  ({items[k] : k \in Keys} \cup {writes[k] : k \in Keys}) \ {Undefined, Untouched}
C11_NonEmptyClassList ==
  /\ \A r \in StoredRecords : Len(r[RESERVED]) > 0
  /\ LastCall("putItem") =>
       IF \E x \in NonArrays : last.seen = Refused(x)
       THEN last.out = Throw(ClassesInvalid)
       ELSE Len(last.call.args.classes) = 0 => last.out = Throw(ClassesEmpty)

\* putItem was given an empty array: it failed, and nothing is stored
C11_Witness ==
  /\ LastThrew("putItem")
  /\ last.seen = Nothing
  /\ Len(last.call.args.classes) = 0
  /\ hasBeenInitialized
  /\ \A k \in Keys : items[k] = Undefined

\* C12 -- full replace: putItem(C2, k, v2) on a key already stored leaves the
\* record with exactly the class list C2 and the value v2, and each class of
\* the old list that is not in C2 no longer sees the key, in getItem,
\* findItems and countItems.
C12_FullReplace ==
  (LastReturned("putItem") /\ last.seen.found # Undefined) =>
    LET obj == last.call.obj
        a == last.call.args
        old == last.seen.found[RESERVED]
    IN /\ View(obj)[a.key] = Encode(a.classes, a.value)
       /\ Decode(View(obj)[a.key]) = [classes |-> a.classes, value |-> a.value]
       /\ \A c \in ClassNames :
            (Contains(old, c) /\ ~Contains(a.classes, c)) =>
              /\ \A e \in BOOLEAN : getItemResult(obj, c, a.key, e) = Throw(ClassMismatch)
              /\ \A q \in Queries :
                   /\ \A i \in DOMAIN findItemsResult(obj, c, q) :
                        findItemsResult(obj, c, q)[i].key # a.key
                   /\ countItemsResult(obj, c, q) =
                        Cardinality({k \in Keys \ {a.key} :
                                       /\ View(obj)[k] # Undefined
                                       /\ Contains(View(obj)[k][RESERVED], c)
                                       /\ Matches(View(obj)[k], q)})

\* the key was stored as an Account and a Person with one country, and is put
\* again as an Account only, with another country
C12_Witness ==
  /\ LastReturned("putItem")
  /\ last.seen.found # Undefined
  /\ Contains(last.seen.found[RESERVED], "Person")
  /\ last.call.args.classes = <<"Account">>
  /\ last.seen.found["country"] # last.call.args.value["country"]

\* C13 -- getItems is all or nothing: when a fetched record does not carry the
\* class the call throws the class-mismatch error and returns no item, and
\* otherwise it returns one {classes, key, value} per fetched record, in the
\* order of the fetched records.
C13_GetItemsAllOrNothing ==
  (LastCall("getItems") /\ last.seen # Nothing /\ last.seen.found.type = "return") =>
    LET fetched == last.seen.found.value
        klass == last.call.args.klass
    IN IF \E i \in DOMAIN fetched : ~Contains(fetched[i].value[RESERVED], klass)
       THEN last.out = Throw(ClassMismatch)
       ELSE /\ last.out.type = "return"
            /\ Len(last.out.value) = Len(fetched)
            /\ \A i \in DOMAIN fetched :
                 last.out.value[i] = [classes |-> fetched[i].value[RESERVED],
                                      key |-> fetched[i].key,
                                      value |-> Omit(fetched[i].value)]

\* two records were fetched, the first carries the class, the second does not:
\* the call threw
C13_Witness ==
  /\ LastThrew("getItems")
  /\ last.seen # Nothing
  /\ last.seen.found.type = "return"
  /\ Len(last.seen.found.value) = 2
  /\ Contains(last.seen.found.value[1].value[RESERVED], last.call.args.klass)
  /\ ~Contains(last.seen.found.value[2].value[RESERVED], last.call.args.klass)

\* C14 -- countItems(class, q) is the number of items findItems(class, q)
\* returns, in every state and for every class and query.
C14_CountIsFindLength ==
  LastReturned("countItems") =>
    last.out.value = Num(Len(findItemsResult(last.call.obj, last.call.args.klass,
                                             last.call.args.query)))

\* two items of the class are stored, the query keeps one: the count is 1
C14_Witness ==
  /\ LastReturned("countItems")
  /\ last.out.value = Num(1)
  /\ Len(findItemsResult(last.call.obj, last.call.args.klass, [p \in {} |-> Undefined])) = 2

\* C15 -- findItems(class, {order: p}) returns the items of the class, each
\* once, with the values of the attribute p non-decreasing along the result.
C15_FindItemsOrder ==
  LastReturned("findItemsOrder") =>
    LET a == last.call.args
        out == last.out.value
        unordered == findItemsResult(last.call.obj, a.klass, a.query)
    IN /\ \A i, j \in DOMAIN out :
            i < j => Rank(ValueOrder, out[i].value[a.order]) <=
                     Rank(ValueOrder, out[j].value[a.order])
       /\ Len(out) = Len(unordered)
       /\ {out[i] : i \in DOMAIN out} = {unordered[i] : i \in DOMAIN unordered}

\* the order of the attribute is the reverse of the order of the keys
C15_Witness ==
  /\ LastReturned("findItemsOrder")
  /\ Len(last.out.value) = 2
  /\ last.out.value[1].key = "bbb"
  /\ last.out.value[2].key = "aaa"

\* C16 -- forEachItems(class, {batchSize: n}, visit) calls the visitor once for
\* each item of the class, one call at a time, in the order of findItems(class)
\* without a limit, for every n >= 1: the items visited so far are at every
\* moment the first items of findItems, and all of them when the call returns.
IsPrefix(s, t) == Len(s) <= Len(t) /\ \A i \in DOMAIN s : s[i] = t[i]
C16_ForEachVisitsAllInOrder ==
  /\ scan # Undefined =>
       /\ Len(scan.visited) >= 1
       /\ IsPrefix(scan.visited,
                   findItemsResult(scan.call.obj, scan.call.args.klass, scan.call.args.query))
  /\ LastReturned("forEachItems") =>
       last.seen.visited =
         findItemsResult(last.call.obj, last.call.args.klass, last.call.args.query)

\* a scan of two items in batches of one returned
C16_Witness ==
  /\ LastReturned("forEachItems")
  /\ last.call.args.batchSize = 1
  /\ Len(last.seen.visited) = 2

\* C17 -- an error raised by a visitor stops the scan: the failing item is the
\* last one visited, and forEachItems throws the same error.
C17_VisitorErrorStopsScan ==
  /\ scan # Undefined => scan.raised = <<>>
  /\ (LastCall("forEachItems") /\ last.seen # Nothing /\ last.seen.raised # <<>>) =>
       /\ last.out = Throw(last.seen.raised[1])
       /\ Len(last.seen.raised) = 1
       /\ IsPrefix(last.seen.visited,
                   findItemsResult(last.call.obj, last.call.args.klass, last.call.args.query))

\* the visitor threw at the first of two items: the second was not visited
C17_Witness ==
  /\ LastThrew("forEachItems")
  /\ last.out.error \in UserErrors
  /\ Len(last.seen.visited) = 1
  /\ Len(findItemsResult(last.call.obj, last.call.args.klass, last.call.args.query)) = 2

\* C18 -- findAndDeleteItems(class, q) removes exactly the items of the class
\* that satisfy q, leaves every other item as it was, and returns the number of
\* items it removed; the same call made again at once returns 0.
C18_FindAndDeleteItems ==
  LastReturned("findAndDeleteItems") =>
    LET obj == last.call.obj
        a == last.call.args
        before == last.seen.found
        matching == {k \in Keys : /\ before[k] # Undefined
                                  /\ Contains(before[k][RESERVED], a.klass)
                                  /\ Matches(before[k], a.query)}
        again == StoreFindKeys(View(obj), injectClassInQueryOption(a.klass, a.query))
    IN /\ \A k \in Keys :
            View(obj)[k] = IF k \in matching THEN Undefined ELSE before[k]
       /\ last.out.value = Num(Cardinality(matching))
       /\ findAndDeleteItemsReturn(Len(again)) = Num(0)

\* C19 -- lazy initialization before use: whatever the interleaving of the
\* calls started on the root of a new instance, a getItem or putItem has read
\* or written the table, and a transaction() has opened its transaction, only
\* once the lifecycle is Ready.
ReachedStore ==
  \/ (LastCall("getItem") \/ LastCall("putItem")) /\ last.seen # Nothing
  \/ frames # <<>>
C19_InitializedBeforeUse == ReachedStore => Lifecycle = "Ready"

\* C20 -- initializeObjectDatabase called while the lifecycle is Ready or
\* Initializing returns at once: the step changes neither the table, the
\* record, the lock nor the flags and emits nothing; and an initialization
\* starts only when none is running.
InitializationStarts == initPc' = "initializeDatabase" /\ initPc # "initializeDatabase"
C20_InitializeIsNoOp ==
  [][/\ (/\ last' # last
         /\ last'.call.op = "initializeObjectDatabase"
         /\ last'.call.args.lifecycle \in {"Ready", "Initializing"})
          => /\ last'.out = Return(Undefined)
             /\ UNCHANGED <<storeVars, lifecycleVars>>
             /\ emitted' = <<>>
     /\ InitializationStarts => (initPc = "idle" /\ ~isInitializing)]_vars

\* initializeObjectDatabase returned while the initialization started by an
\* earlier call is still running
C20_Witness ==
  /\ LastReturned("initializeObjectDatabase")
  /\ last.call.args.lifecycle = "Initializing"
  /\ initPc # "idle"
  /\ ~hasBeenInitialized

\* C21 -- initializeObjectDatabase called on a transaction scope while the
\* lifecycle is neither Ready nor Initializing fails with the transaction
\* misuse error, in a step that changes neither the table, the record, the lock
\* nor the flags, starts no initialization and emits nothing.
C21_TransactionMisuse ==
  [][(/\ last' # last
      /\ last'.call.op = "initializeObjectDatabase"
      /\ last'.call.obj # Root
      /\ last'.call.args.lifecycle = "Uninitialized")
       => /\ last'.out = Throw(TransactionMisuse)
          /\ UNCHANGED <<storeVars, lifecycleVars>>
          /\ emitted' = <<>>]_vars

\* the call was made in a running transaction body, after the database was
\* destroyed
C21_Witness ==
  /\ LastThrew("initializeObjectDatabase")
  /\ last.call.obj # Root
  /\ last.call.args.lifecycle = "Uninitialized"
  /\ frames # <<>>

\* C22 -- creation path: an initialization that finds no record creates it
\* with the version VERSION, emits didCreate, removes the tables marked as
\* removed and marks the instance Ready, and neither takes the lock nor runs
\* the upgrade; an initialization that is past that step without a creation
\* found a record.
CreationPath ==
  <<"initializeDatabase", "store.get", "store.put", "didCreate",
    "removeTablesMarkedAsRemoved">>
C22_CreationPath ==
  /\ Contains(log, "didCreate") =>
       /\ IsPrefix(log, CreationPath)
       /\ record = [version |-> VERSION]
       /\ ~lockHeld
       /\ initPc \in {"removeTablesMarkedAsRemoved", "emitDidInitialize"}
       /\ initPc = "emitDidInitialize" => (log = CreationPath /\ Lifecycle = "Ready")
  /\ (/\ initPc \in {"removeTablesMarkedAsRemoved", "lockDatabase", "upgradeObjectDatabase",
                     "unlockDatabase", "emitDidInitialize"}
      /\ ~Contains(log, "didCreate")) => record # Undefined

\* the record was created and the instance is Ready, before didInitialize
C22_Witness ==
  /\ initPc = "emitDidInitialize"
  /\ Contains(log, "didCreate")
  /\ hasBeenInitialized

\* C23 -- lock discipline: the upgrade routine runs, and has run, only while
\* the instance holds the database lock, and once initializeObjectDatabase has
\* returned or failed, also with the error of the upgrade routine, the
\* instance does not hold the lock.
C23_LockDiscipline ==
  /\ initPc \in {"upgradeObjectDatabase", "unlockDatabase"} => lockHeld
  /\ initPc \in {"idle", "emitDidInitialize"} => ~lockHeld
  /\ lockHeld => (isInitializing /\ Contains(log, "lockDatabase")
                  /\ ~Contains(log, "unlockDatabase"))

\* the upgrade routine raised an error and the call failed with it: the lock
\* is free
C23_Witness ==
  /\ LastThrew("getItem")
  /\ last.out.error \in {VersionDowngrade, StoreFailure}
  /\ initPc = "idle"
  /\ ~lockHeld

\* C24 -- version downgrade: as long as the stored record has a version greater
\* than VERSION, no step of the instance changes the record (short of
\* destroying the database), the instance is never marked Ready, and every
\* call that triggers the initialization ends with the downgrade error.
VersionGreater(r) == IF r = Undefined THEN FALSE ELSE r.version > VERSION
C24_VersionDowngrade ==
  [][VersionGreater(record) =>
       /\ record' = record \/ last'.call.op = "destroyObjectDatabase"
       /\ ~hasBeenInitialized'
       /\ (/\ last' # last
           /\ last'.call.op \in {"getItem", "transaction", "initializeObjectDatabase"})
            => last'.out = Throw(VersionDowngrade)]_vars

\* a getItem failed with the downgrade error; the record is as it was
C24_Witness ==
  /\ LastThrew("getItem")
  /\ last.out.error = VersionDowngrade
  /\ VersionGreater(record)
  /\ initPc = "idle"
  /\ Lifecycle = "Uninitialized"

\* C25 -- upgrade: once the upgrade routine has ended, an upgradeDidStart it
\* emitted is followed by the save of the record and by upgradeDidStop, in
\* that order, and the stored version is VERSION.
UpgradePath == <<"store.get", "upgradeDidStart", "store.put", "upgradeDidStop">>
C25_UpgradeBracket ==
  (initPc = "unlockDatabase" /\ Contains(log, "upgradeDidStart")) =>
    /\ Len(log) >= Len(UpgradePath)
    /\ SubSeq(log, Len(log) - Len(UpgradePath) + 1, Len(log)) = UpgradePath
    /\ record = [version |-> VERSION]

\* the instances whose createObjectDatabaseIfDoesNotExist() returned true
Creators == {i \in Instances : instances[i].hasBeenCreated}

\* the instances whose createObjectDatabaseIfDoesNotExist() has returned in
\* the running or the finished initialization
PastCreation(i) ==
  \/ instances[i].hasBeenInitialized
  \/ instances[i].pc \in {"removeTablesMarkedAsRemoved", "lockDatabase",
                          "upgradeObjectDatabase", "unlockDatabase", "emitDidInitialize"}

\* C26: however the first initializations of several instances on one store
\* interleave, at most one of them creates the LifecycleRecord (obtains
\* hasBeenCreated = true, and with it emits didCreate); an instance whose
\* creation step has returned finds the record in the store, and the record a
\* creator wrote is the one record of the name, with an integer version.
C26_CreatedExactlyOnce ==
  /\ Cardinality(Creators) <= 1
  /\ \A i \in Instances : PastCreation(i) => record # Undefined
  /\ Creators # {} => record \in {[version |-> v] : v \in 0..(VERSION + 1)}

\* two instances raced for the creation: one created the record, the other
\* one's save was refused
C26_Witness ==
  \E i, j \in Instances :
    /\ instances[i].hasBeenCreated
    /\ instances[j].error = AlreadyExists
    /\ record = [version |-> VERSION]

\* the stored version is not greater than the code's
StoredVersionNotGreater == IF record = Undefined THEN TRUE ELSE record.version <= VERSION

\* C27: when the store's calls eventually return and the stored version is not
\* greater than VERSION, every instance on which a class-scoped operation was
\* started eventually has hasBeenInitialized = true, however the first
\* initializations of the instances interleave.
C27_EventualReady ==
  \A i \in Instances :
    (instances[i].started /\ StoredVersionNotGreater) ~> instances[i].hasBeenInitialized

\* C28: an instance whose save of the LifecycleRecord is refused because
\* another instance created the record first does not fail: no initialization
\* ends with the store's already-exists error.
C28_ExistsErrorProceeds ==
  \A i \in Instances : instances[i].error # AlreadyExists

\* the instance is between its lockDatabase() and its unlockDatabase()
InsideUpgrade(i) == instances[i].pc \in {"upgradeObjectDatabase", "unlockDatabase"}

\* C29: when several instances initialize against one store, at most one of
\* them is between lockDatabase() and unlockDatabase() at any time, it is the
\* one holder of the database-level lock, and it finds a LifecycleRecord.
C29_UpgradeMutualExclusion ==
  /\ Cardinality({i \in Instances : InsideUpgrade(i)}) <= 1
  /\ \A i \in Instances : InsideUpgrade(i) <=> instances[i].holdsLock
  /\ (\E i \in Instances : InsideUpgrade(i)) <=> lockHeld
  /\ \A i \in Instances : InsideUpgrade(i) => record # Undefined

\* an instance is about to upgrade a record of a lower version while the
\* other one waits for the lock
C29_Witness ==
  \E i, j \in Instances :
    /\ instances[i].pc = "upgradeObjectDatabase"
    /\ instances[j].pc = "lockDatabase"
    /\ record = [version |-> 0]

\* what a class declaration declares: its name, its indexes, and of a declared
\* index its properties in declared order and its projection
NameOf(c) == IF isString(c) THEN c.value ELSE c.name
DeclaredOf(c) ==
  IF isString(c) THEN <<>>
  ELSE IF c.indexes = Undefined THEN <<>> ELSE c.indexes.elements
DeclaredProperties(d) ==
  LET p == IF isPlainObject(d) THEN d.properties ELSE d
  IN  IF isArray(p) THEN p.elements ELSE <<p>>
DeclaredProjection(d) == IF isPlainObject(d) THEN d.projection ELSE Undefined

\* the sum of (n_i + 1) over the classes
RECURSIVE IndexCount(_)
IndexCount(cs) ==
  IF cs = <<>> THEN 0 ELSE Len(DeclaredOf(Head(cs))) + 1 + IndexCount(Tail(cs))

\* C30: the table synthesized from class declarations with n_1..n_m declared
\* indexes has the sum of (n_i + 1) indexes, class by class in declared order:
\* first the index whose only key component is the class's membership
\* function, then one index per declared index, with the membership function
\* first and the declared properties after it in declared order; an index
\* declared with a projection has that projection with '_classes' appended,
\* and an index declared without one has none.
C30_SchemaSynthesis ==
  (last.call.op = "creator" /\ last.out.type = "return") =>
    LET cs == last.call.args.classes
        t == last.out.value.indexes
    IN  /\ Len(t) = IndexCount(cs)
        /\ \A i \in 1..Len(cs) :
             LET first == IndexCount(SubSeq(cs, 1, i - 1)) + 1
                 declared == DeclaredOf(cs[i])
                 membership == fn(NameOf(cs[i]))
             IN  /\ t[first].properties = Array(<<membership>>)
                 /\ t[first].projection = Undefined
                 /\ membership.displayName = makeIndexName(NameOf(cs[i]))
                 /\ \A k \in 1..Len(declared) :
                      LET e == t[first + k]
                          q == DeclaredProjection(declared[k])
                      IN  /\ isArray(e.properties)
                          /\ e.properties.elements =
                               <<membership>> \o DeclaredProperties(declared[k])
                          /\ IF q = Undefined THEN e.projection = Undefined
                             ELSE e.projection =
                                    Array(Append(q.elements, String("_classes")))

\* two classes, one declared as a string, the other with a property name and
\* with an object that has an array of properties and an empty projection
C30_Witness ==
  /\ last.call.op = "creator"
  /\ last.call.args.classes =
       <<ClassObject("Person",
           Array(<<IndexObject(Array(<<String("name"), String("country")>>), Array(<<>>)),
                   String("country")>>)),
         String("Account")>>
  /\ last.out.type = "return"
  /\ Len(last.out.value.indexes) = 4
  /\ last.out.value.indexes[2].projection = Array(<<String("_classes")>>)
  /\ last.out.value.indexes[4].properties = Array(<<fn("Account")>>)

\* the call was given a class that is not a non-empty string, or a class list
\* that is not a non-empty array
InvalidArguments(call, seen) ==
  IF seen \in {Refused(x) : x \in NonStrings \cup NonArrays} THEN TRUE
  ELSE IF call.op \in ClassOperations THEN call.args.klass = ""
  ELSE IF call.op = "putItem" THEN call.args.classes = <<>>
  ELSE FALSE
InvalidArgument == {ClassInvalid, ClassNotString, ClassesEmpty, ClassesInvalid}

\* C31 -- validation comes first: a call of getItem, deleteItem, getItems,
\* findItems, countItems, forEachItems or findAndDeleteItems with a class that
\* is not a non-empty string, or of putItem with a class list that is not a
\* non-empty array, throws an invalid-argument error in a step that starts no
\* initialization, opens no transaction and no scan, and changes neither the
\* table, the record, the lock nor the flags; and no call suspended in the
\* initialization has such arguments.
C31_ValidationFirst ==
  [][/\ (last' # last /\ InvalidArguments(last'.call, last'.seen))
          => /\ last'.out.type = "throw"
             /\ last'.out.error \in InvalidArgument
             /\ UNCHANGED <<storeVars, lifecycleVars>>
             /\ emitted' = <<>>
     /\ (pending' # pending /\ pending' # Undefined)
          => ~InvalidArguments(pending', Nothing)]_vars

\* forEachItems with an empty class name was refused on a transaction scope
\* of an instance that was initialized
C31_Witness ==
  /\ LastThrew("forEachItems")
  /\ last.call.obj # Root
  /\ last.call.args.klass = ""
  /\ last.out.error = ClassInvalid
  /\ hasBeenInitialized
  /\ scan = Undefined

EqualVersionPath ==
  <<"initializeDatabase", "store.get", "lockDatabase", "store.get", "unlockDatabase">>

\* C34 -- equal version: the upgrade routine reached with a stored record of
\* the version VERSION runs under the lock, only loads the record, writes
\* nothing, emits nothing and raises nothing; the unlock that follows releases
\* the lock and the instance is Ready, the record being the same.
C34_EqualVersionNoOp ==
  [][/\ initPc = "upgradeObjectDatabase" => (lockHeld /\ Contains(log, "lockDatabase"))
     /\ (initPc = "upgradeObjectDatabase" /\ record = [version |-> VERSION])
          => /\ record' = record
             /\ emitted' = <<>>
             /\ log' = Append(log, "store.get")
             /\ initErr' = Undefined
             /\ initPc' = "unlockDatabase"
             /\ lockHeld'
     /\ (initPc = "unlockDatabase" /\ initErr = Undefined)
          => /\ ~lockHeld'
             /\ hasBeenInitialized'
             /\ record' = record
             /\ initPc' = "emitDidInitialize"]_vars

\* the initialization found a record of the version VERSION, took and
\* released the lock, and is about to emit didInitialize
C34_Witness ==
  /\ initPc = "emitDidInitialize"
  /\ log = EqualVersionPath
  /\ record = [version |-> VERSION]
  /\ Lifecycle = "Ready"
  /\ ~lockHeld

\* the step emits didInitialize
EmitsDidInitialize == emitted' # emitted /\ Contains(emitted', "didInitialize")

\* the step ends a running initialization with an error of the store, of the
\* upgrade or of a listener, which the suspended call then throws
InitializationErrors ==
  {StoreFailure, VersionDowngrade} \cup {Error(u) : u \in UserErrors}
InitializationFails ==
  /\ initPc # "idle"
  /\ initPc' = "idle"
  /\ last' # last
  /\ last'.out.type = "throw"
  /\ last'.out.error \in InitializationErrors

\* C35 -- didInitialize is emitted only by the last step of a running
\* initialization, with hasBeenInitialized already set, and that step ends the
\* initialization: once per initialization that reaches it.  While the
\* listeners run the flag is set and a call they issue starts no
\* initialization.  An initialization that fails before that step, in a call
\* to the store or in the upgrade, emits no didInitialize and leaves the flag
\* unset.
C35_DidInitializeAfterReady ==
  [][/\ EmitsDidInitialize
          => /\ initPc = "emitDidInitialize"
             /\ hasBeenInitialized
             /\ hasBeenInitialized'
             /\ initPc' = "idle"
             /\ ~isInitializing'
     /\ initPc = "emitDidInitialize"
          => /\ hasBeenInitialized
             /\ initPc' \in {"emitDidInitialize", "idle"}
             /\ pending' \in {pending, Undefined}
     /\ (InitializationFails /\ initPc # "emitDidInitialize")
          => /\ ~Contains(emitted', "didInitialize")
             /\ ~Contains(log, "didInitialize")
             /\ ~hasBeenInitialized']_vars

\* the claim as it is written: no initialization that fails emits didInitialize
C35_NoDidInitializeOnFailure ==
  [][InitializationFails => ~Contains(emitted', "didInitialize")]_vars

\* a listener of didInitialize has issued a getItem that reached the store
\* while the notification is delivered
C35_Witness ==
  /\ initPc = "emitDidInitialize"
  /\ hasBeenInitialized
  /\ isInitializing
  /\ LastCall("getItem")
  /\ last.call.args.key = "bbb"
  /\ last.seen # Nothing
  /\ pending # Undefined

\* C36 -- a getItem issued through the transaction scope of a running
\* transaction() body never fails with the error 'cannot initialize the
\* object database inside a transaction', whatever was called on the root
\* since the transaction was opened.
C36_ScopeNeverRefused ==
  (LastCall("getItem") /\ last.call.obj # Root) => last.out # Throw(TransactionMisuse)

\* C37 -- whenever no initialization is running isInitializing is false, and
\* a step that ends a running initialization with an error, whichever step of
\* the initialization failed (a call to the store, the upgrade, a listener of
\* didInitialize), leaves both flags unset: the lifecycle is Uninitialized and
\* the next class-scoped operation runs the initialization again.
C37_FailureLeavesUninitialized ==
  [][/\ initPc' = "idle" => ~isInitializing'
     /\ InitializationFails
          => /\ ~isInitializing'
             /\ ~hasBeenInitialized'
             /\ initializeObjectDatabaseEntry(Root)' = "run"]_vars

\* C38 -- after destroyObjectDatabase() on the root, as long as nothing has
\* created the record again, both flags are unset, so that the next
\* class-scoped operation on the root runs the initialization; and a getItem
\* on the root that has read the table found the record of the object
\* database in the store: the initialization created it again first.
C38_DestroyResets ==
  /\ (LastCall("destroyObjectDatabase") /\ Awaited /\ record = Undefined)
       => /\ Lifecycle = "Uninitialized"
          /\ initializeObjectDatabaseEntry(Root) = "run"
  /\ (LastCall("getItem") /\ last.call.obj = Root /\ last.seen # Nothing)
       => record # Undefined

\* the predicates of a query that the caller wrote: the membership predicates
\* are written by injectClassInQueryOption only
Supplied(query) ==
  [p \in DOMAIN query \ {makeIndexName(c) : c \in ClassNames} |-> query[p]]

\* C39 -- the query handed to the store has every predicate of the query the
\* call was given, unchanged, and the membership predicate of the requested
\* class; and what findItems, countItems, forEachItems and findAndDeleteItems
\* answer for a class and an options object is what they answer for that class
\* and the predicates the caller wrote in the object, whichever calls the
\* object was given to before.
C39_QueryInjectionIndependent ==
  LET k == last.call.args.klass
      q == last.call.args.query
      o == last.call.obj
      injected == injectClassInQueryOption(k, q)
  IN (last.call.op \in QueryOperations /\ last.out.type = "return") =>
       /\ DOMAIN injected = DOMAIN q \cup {makeIndexName(k)}
       /\ \A p \in DOMAIN q : injected[p] = q[p]
       /\ injected[makeIndexName(k)] = Bool(TRUE)
       /\ last.call.op = "findItems" =>
            last.out.value = findItemsResult(o, k, Supplied(q))
       /\ last.call.op = "countItems" =>
            last.out.value = Num(countItemsResult(o, k, Supplied(q)))
       /\ last.call.op = "forEachItems" =>
            last.seen.visited = findItemsResult(o, k, Supplied(q))
       /\ last.call.op = "findAndDeleteItems" =>
            last.out.value =
              findAndDeleteItemsReturn(
                Len(StoreFindKeys(last.seen.found,
                                  injectClassInQueryOption(k, Supplied(q)))))

====
